---- MODULE Spec2Model ----
(***************************************************************************)
(* Verification model of the spam-guard runtime: the two-lane message      *)
(* queue (tasks/queue.rs), the update-listener watchdog                    *)
(* (telegram/handler.rs), the shutdown coordinator                         *)
(* (infrastructure/shutdown.rs), the batch processor (tasks/processor.rs)  *)
(* and the instance guard (infrastructure/instance_guard.rs).              *)
(*                                                                         *)
(* Each component has its own specification over the shared variables;     *)
(* a specification leaves the variables of the other components alone.     *)
(***************************************************************************)
EXTENDS Integers, Sequences, FiniteSets, TLC

\* ------------------------------------------------------------------ bounds
\* Number of concurrent producers and pushes per producer (queue model).
NProducers == 2
ItemsPerProducer == 2
\* Number of push calls explored over all producers.
MaxPushes == 4

\* Largest configured network_error_threshold explored.
MaxThreshold == 3
\* Configured network_error_window and restart_cooldown, in clock ticks.
NetworkErrorWindow == 1
RestartCooldown == 2
\* Last clock tick explored, and the number of error reports that may be in
\* progress at once.
MaxTime == 3
NReporters == 2
\* Listeners obtained from Shutdown::subscribe, and calls of Shutdown::trigger.
NListeners == 3
MaxTriggers == 2
\* Processes started on one data directory, and lock attempts explored per
\* acquire before the wait ceiling (MAX_WAIT / WAIT_INTERVAL in the code).
NProcs == 2
MaxAttempts == 2
\* Jobs pushed to the processor's queue over a run.
MaxJobs == 2
\* run's shutdown_timeout (5 s), in ticks of the time a wait has lasted.
ShutdownTimeout == 2
MaxTextLen == 4
MaxLimit == 2
\* The model stops reporting errors once consecutive_errors is past the
\* largest threshold.
MaxCount == MaxThreshold + 1

\* Option<T>: None, or Some(x).
None == <<>>
Some(x) == <<x>>
Unwrap(o) == o[1]

\* ------------------------------------------------------------------ state
VARIABLES
    high,            \* MessageQueue.high   : VecDeque<T>
    normal,          \* MessageQueue.normal : VecDeque<T>
    hiLock,          \* holder of MessageQueue.high's mutex, or None
    noLock,          \* holder of MessageQueue.normal's mutex, or None
    drainPc,         \* position of the drain_ordered call in progress
    drained,         \* Vec<T> returned by the last drain_ordered
    sent,            \* per producer: number of push calls completed
    hiPushed,        \* history: high-lane pushes since the last drain, in call order
    noPushed,        \* history: normal-lane pushes since the last drain, in call order
    drainedAll,      \* history: concatenation of every drain result
    drains           \* history: number of drain_ordered calls that returned items

qvars == <<high, normal, hiLock, noLock, drainPc, drained, sent,
           hiPushed, noPushed, drainedAll, drains>>

VARIABLES
    clock,           \* tokio::time::Instant::now()
    threshold,       \* config.resilience.network_error_threshold
    wdFirst,         \* WatchdogState.first_error_at
    wdCount,         \* WatchdogState.consecutive_errors
    wdLast,          \* WatchdogState.last_restart_at
    wdLock,          \* holder of UpdateListenerWatchdog.state's mutex, or None
    wpc,             \* per report: position in handle_network_failure
    wNow,            \* per report: the local `now`
    wDecision,       \* per report: the local restart_decision (its count)
    restarts,        \* history: number of invocations of restart_callback
    lastAt,          \* history: time of the latest invocation of restart_callback
    notices          \* history: calls of notify_admin_group by the watchdog

wvars == <<clock, threshold, wdFirst, wdCount, wdLast, wdLock, wpc,
           wNow, wDecision, restarts, lastAt, notices>>

VARIABLES
    sdValue,         \* the bool held by the watch channel
    sdVersion,       \* the watch channel's version, stepped by each stored send
    sdRx,            \* the watch channel's count of live receivers
    lst,             \* per listener: "absent", "live" or "dropped"
    lseen,           \* per listener: the version its receiver has seen
    lpc,             \* per listener: position in notified()
    trigCalls        \* history: number of calls of Shutdown::trigger

svars == <<sdValue, sdVersion, sdRx, lst, lseen, lpc, trigCalls>>

VARIABLES
    adminGroup,      \* config.admin_group_id is Some(id) with id # 0
    apiKey,          \* config.cerebras.api_key is Some(_)
    submitted,       \* the Jobs pushed so far
    ppc,             \* position of the processor task in run_loop / handle_batch
    batch,           \* handle_batch: Jobs of the batch not yet taken by the for loop
    cur,             \* handle_batch: the loop's `job`, or None
    urlsLeft,        \* handle_batch: URLs of `job` not yet fetched
    entry,           \* handle_batch: `entry` as <<message-id string, pages appended>>
    entries,         \* handle_batch: prompt_entries
    lookup,          \* handle_batch: HashMap<String, MessageJob>
    pending,         \* apply_classification: decisions not yet iterated
    curDel,          \* delete_spam: its `job`, or None
    batchJobs,       \* history: the batch last handed to handle_batch
    classification,  \* history: the map classify returned for that batch, or None
    classifyCalls,   \* history: classify futures started for that batch
    deletes,         \* history: delete_message calls of that batch <<chat, id, ok>>
    notes,           \* history: admin send_message calls of that batch <<chat, id>>
    fetchCut         \* history: trigger was called while that batch awaited a fetch

pwork == <<batch, cur, urlsLeft, entry, entries, lookup, pending, curDel>>
phist == <<batchJobs, classification, classifyCalls, deletes, notes, fetchCut>>
pvars == <<adminGroup, apiKey, submitted, ppc, pwork, phist>>

VARIABLES
    skipGuard,       \* SKIP_PROCESS_GUARD is "1" or "true"
    canKill,         \* the processes may signal one another
    files,           \* the files ever created at the lock path, by inode:
                     \*   content (LockInfo pid, or None when empty) and flock holder
    path,            \* inode the name <data_dir>/.bot.lock refers to, 0 when absent
    gpc,             \* per process: position in acquire / Drop
    gfd,             \* per process: inode of its open `file`, 0 when none
    gtodo,           \* per process: processes its scan has still to visit
    gtarget,         \* per process: pid given to terminate_process
    gkilled,         \* per process: terminate_process's `killed`
    gret,            \* per process: the caller of terminate_process
    gtries           \* per process: iterations of acquire's loop so far

gvars == <<skipGuard, canKill, files, path, gpc, gfd, gtodo, gtarget, gkilled,
           gret, gtries>>

VARIABLES
    apc,                \* position of SpamGuardApp::run
    telegramCompleted,  \* run's local telegram_completed
    tg,                 \* telegram_future: "unstarted", "running" or "done"
    ptask,              \* the task behind processor_handle: "unspawned", "running",
                        \*   "finished" or "aborted"
    waited,             \* time the wait in progress has lasted
    warned              \* history: the targets of run's timeout warnings

avars == <<apc, telegramCompleted, tg, ptask, waited, warned>>

VARIABLES
    mpc                 \* position of main, and of initialize under it

mvars == <<mpc>>

VARIABLES
    snapPc,             \* position of the snapshot call in progress
    snapHigh,           \* snapshot: the high_priority field once evaluated
    snapshot            \* the QueueSnapshot last returned, or None

nvars == <<snapPc, snapHigh, snapshot>>

VARIABLES
    utext,              \* extract_urls: `text`, one character per element
    ulimit,             \* extract_urls: `limit`
    urls                \* the Vec<String> extract_urls returned, or None

uvars == <<utext, ulimit, urls>>

VARIABLES
    hiEver,             \* history: the items ever pushed to the high lane
    delEver             \* history: the delete calls of the run, per chat and message id

lvars == <<hiEver, delEver>>

vars == <<qvars, wvars, svars, pvars, gvars, avars, mvars, nvars, uvars, lvars>>

\* ------------------------------------------------------------------ helpers
Range(s) == {s[i] : i \in 1..Len(s)}

NoDup(s) == \A i, j \in 1..Len(s) : i # j => s[i] # s[j]

\* ================================================================== queue
Producers == 1..NProducers

\* VecDeque::push_back, as push uses it on the locked lane.
PushFront(q, v) == <<v>> \o q
PushBack(q, v) == Append(q, v)

\* The Vec drain_ordered builds: high.drain(..) then normal.drain(..).
DrainNormalFirst(h, n) == n \o h
DrainOrdered(h, n) == h \o n

\* What a lane holds once drain(..) has run on it.
KeepLane(q) == q
AfterDrain(q) == <<>>

QueueInit ==
    /\ high = <<>>
    /\ normal = <<>>
    /\ hiLock = None
    /\ noLock = None
    /\ drainPc = "idle"
    /\ drained = <<>>
    /\ sent = [p \in Producers |-> 0]
    /\ hiPushed = <<>>
    /\ noPushed = <<>>
    /\ drainedAll = <<>>
    /\ drains = 0

RECURSIVE SumTo(_, _)
SumTo(f, n) == IF n = 0 THEN 0 ELSE f[n] + SumTo(f, n - 1)

\* A producer has a message to push.
CanPush(p) ==
    /\ sent[p] < ItemsPerProducer
    /\ SumTo(sent, NProducers) < MaxPushes

\* MessageQueue::push(Priority::High, value): lock, push_back, unlock.
PushLaneHigh(v) ==
    /\ hiLock = None
    /\ high' = PushBack(high, v)
    /\ hiPushed' = Append(hiPushed, v)
    /\ UNCHANGED <<normal, hiLock, noLock, drainPc, drained, noPushed,
                   drainedAll, drains>>

\* MessageQueue::push(Priority::Normal, value): lock, push_back, unlock.
PushLaneNormal(v) ==
    /\ noLock = None
    /\ normal' = PushBack(normal, v)
    /\ noPushed' = Append(noPushed, v)
    /\ UNCHANGED <<high, hiLock, noLock, drainPc, drained, hiPushed,
                   drainedAll, drains>>

\* Producer p pushes its next item on the high lane.
PushHigh(p) ==
    /\ CanPush(p)
    /\ PushLaneHigh(<<p, sent[p] + 1>>)
    /\ sent' = [sent EXCEPT ![p] = @ + 1]

\* Producer p pushes its next item on the normal lane.
PushNormal(p) ==
    /\ CanPush(p)
    /\ PushLaneNormal(<<p, sent[p] + 1>>)
    /\ sent' = [sent EXCEPT ![p] = @ + 1]

\* The pushes of producer p, with the lane of each item kept for the record.
PushHighLogged(p) ==
    /\ PushHigh(p)
    /\ hiEver' = hiEver \cup {<<p, sent[p] + 1>>}
    /\ UNCHANGED delEver

PushNormalLogged(p) ==
    /\ PushNormal(p)
    /\ UNCHANGED lvars

\* drain_ordered, line 36: let mut high = self.high.lock();
DrainLockHigh ==
    /\ drainPc = "idle"
    /\ hiLock = None
    /\ hiLock' = Some("drain")
    /\ drainPc' = "lockedHigh"
    /\ UNCHANGED <<high, normal, noLock, drained, sent, hiPushed, noPushed,
                   drainedAll, drains>>

\* drain_ordered, line 37: let mut normal = self.normal.lock();
DrainLockNormal ==
    /\ drainPc = "lockedHigh"
    /\ noLock = None
    /\ noLock' = Some("drain")
    /\ drainPc' = "lockedBoth"
    /\ UNCHANGED <<high, normal, hiLock, drained, sent, hiPushed, noPushed,
                   drainedAll, drains>>

\* drain_ordered, lines 38-41: extend with both drains, return, drop the guards.
DrainTake ==
    /\ drainPc = "lockedBoth"
    /\ drained' = DrainOrdered(high, normal)
    /\ high' = AfterDrain(high)
    /\ normal' = AfterDrain(normal)
    /\ hiLock' = None
    /\ noLock' = None
    /\ drainPc' = "idle"
    /\ drainedAll' = drainedAll \o drained'
    /\ drains' = IF drained' = <<>> THEN drains ELSE drains + 1
    /\ hiPushed' = <<>>
    /\ noPushed' = <<>>
    /\ UNCHANGED sent

\* No push and no delete call has been made.
LanesInit ==
    /\ hiEver = {}
    /\ delEver = [c \in {1, 2}, m \in {1, 2} |-> 0]

\* No snapshot has been asked for.
SnapshotInit ==
    /\ snapPc = "idle"
    /\ snapHigh = 0
    /\ snapshot = None

\* A snapshot that takes the lock of the normal lane first.
SnapLocksNormalFirst ==
    /\ snapPc = "idle"
    /\ noLock = None
    /\ noLock' = Some("snapshot")
    /\ snapHigh' = Len(normal)
    /\ snapPc' = "lockedHigh"
    /\ UNCHANGED <<high, normal, hiLock, drainPc, drained, sent, hiPushed,
                   noPushed, drainedAll, drains, snapshot>>

\* snapshot, line 45: self.high.lock().len(). The guard is a temporary of
\* the struct expression and lives until the expression has been evaluated.
SnapLockHigh ==
    /\ snapPc = "idle"
    /\ hiLock = None
    /\ hiLock' = Some("snapshot")
    /\ snapHigh' = Len(high)
    /\ snapPc' = "lockedHigh"
    /\ UNCHANGED <<high, normal, noLock, drainPc, drained, sent, hiPushed,
                   noPushed, drainedAll, drains, snapshot>>

\* A snapshot that empties the lanes it measures.
SnapTakesItems ==
    /\ snapPc = "lockedHigh"
    /\ noLock = None
    /\ snapshot' = Some([high_priority |-> snapHigh, normal_priority |-> Len(normal)])
    /\ high' = <<>>
    /\ normal' = <<>>
    /\ hiLock' = None
    /\ snapHigh' = 0
    /\ snapPc' = "idle"
    /\ UNCHANGED <<noLock, drainPc, drained, sent, hiPushed, noPushed,
                   drainedAll, drains>>

\* snapshot, lines 46-48: self.normal.lock().len(); the QueueSnapshot is
\* returned and both guards are dropped.
SnapLockNormal ==
    /\ snapPc = "lockedHigh"
    /\ noLock = None
    /\ snapshot' = Some([high_priority |-> snapHigh, normal_priority |-> Len(normal)])
    /\ hiLock' = None
    /\ snapHigh' = 0
    /\ snapPc' = "idle"
    /\ UNCHANGED <<high, normal, noLock, drainPc, drained, sent, hiPushed,
                   noPushed, drainedAll, drains>>

\* ================================================================== watchdog
Reporters == 1..NReporters

\* tokio::time::Instant::duration_since: zero when `earlier` is later.
Since(t, earlier) == IF t >= earlier THEN t - earlier ELSE 0

\* Lines 123-127: first_error_at.map(|ts| now - ts > window).unwrap_or(true).
WindowNeverExpires(first, t) == first = None
WindowExpired(first, t) ==
    first = None \/ Since(t, Unwrap(first)) > NetworkErrorWindow

\* Line 146: consecutive >= network_error_threshold.
ThresholdExceeded(c, th) == c > th
ThresholdReached(c, th) == c >= th

\* Lines 147-150: last_restart_at.map(|ts| now - ts < cooldown).unwrap_or(false).
CooldownForever(last, t) == last # None
NoCooldown(last, t) == FALSE
CooldownActive(last, t) ==
    last # None /\ Since(t, Unwrap(last)) < RestartCooldown

WatchdogInit ==
    /\ clock = 0
    /\ threshold \in {1, NReporters, MaxThreshold}
    /\ wdFirst = None
    /\ wdCount = 0
    /\ wdLast = None
    /\ wdLock = None
    /\ wpc = [r \in Reporters |-> "idle"]
    /\ wNow = [r \in Reporters |-> 0]
    /\ wDecision = [r \in Reporters |-> None]
    /\ restarts = 0
    /\ lastAt = None
    /\ notices = 0

\* The watchdog of a run in which no listener error is reported.
WatchdogParked ==
    /\ WatchdogInit
    /\ threshold = MaxThreshold

\* Time passes.
Tick ==
    /\ clock < MaxTime
    /\ clock' = clock + 1
    /\ UNCHANGED <<threshold, wdFirst, wdCount, wdLast, wdLock, wpc, wNow,
                   wDecision, restarts, lastAt, notices>>

\* handle_network_failure, lines 117-118: now = Instant::now(); no decision yet.
FailureArrives(r) ==
    /\ wpc[r] = "idle"
    /\ wdCount < MaxCount
    /\ wNow' = [wNow EXCEPT ![r] = clock]
    /\ wDecision' = [wDecision EXCEPT ![r] = None]
    /\ wpc' = [wpc EXCEPT ![r] = "enter"]
    /\ UNCHANGED <<clock, threshold, wdFirst, wdCount, wdLast, wdLock, restarts,
                   lastAt, notices>>

\* The teloxide::RequestError variants a listener error can be.
RequestErrors == {"Network", "Api"}

\* classify_network_issue, lines 94-114: only RequestError::Network is a
\* network issue.
ClassifyEveryError(error) == Some(error)
ClassifyNetworkIssue(error) == IF error = "Network" THEN Some(error) ELSE None

\* process_error, lines 82-92: a network issue goes to
\* handle_network_failure, any other error to the log.
ProcessError(r, error) ==
    IF ClassifyNetworkIssue(error) # None
    THEN FailureArrives(r)
    ELSE /\ wpc[r] = "idle"
         /\ wpc' = [wpc EXCEPT ![r] = "log"]
         /\ UNCHANGED <<clock, threshold, wdFirst, wdCount, wdLast, wdLock,
                        wNow, wDecision, restarts, lastAt, notices>>

\* Lines 86-90: tracing::error!, then process_error returns.
LogError(r) ==
    /\ wpc[r] = "log"
    /\ wpc' = [wpc EXCEPT ![r] = "idle"]
    /\ UNCHANGED <<clock, threshold, wdFirst, wdCount, wdLast, wdLock,
                   wNow, wDecision, restarts, lastAt, notices>>

\* A lock() that does not wait for the holder of the mutex.
LockStateNoMutex(r) ==
    /\ wpc[r] = "enter"
    /\ wdLock' = Some(r)
    /\ wpc' = [wpc EXCEPT ![r] = "locked"]
    /\ UNCHANGED <<clock, threshold, wdFirst, wdCount, wdLast, wNow, wDecision,
                   restarts, lastAt, notices>>

\* Line 120: let mut state = self.state.lock();
LockState(r) ==
    /\ wpc[r] = "enter"
    /\ wdLock = None
    /\ wdLock' = Some(r)
    /\ wpc' = [wpc EXCEPT ![r] = "locked"]
    /\ UNCHANGED <<clock, threshold, wdFirst, wdCount, wdLast, wNow, wDecision,
                   restarts, lastAt, notices>>

\* A critical section that clears the accumulation when the cooldown
\* suppresses the restart.
CountAndDecideClearsOnSkip(r) ==
    /\ wpc[r] = "locked"
    /\ wdLock = Some(r)
    /\ LET now == wNow[r]
           fresh == WindowExpired(wdFirst, now)
           first == IF fresh THEN Some(now) ELSE wdFirst
           consecutive == (IF fresh THEN 0 ELSE wdCount) + 1
           reached == ThresholdReached(consecutive, threshold)
           trip == reached /\ ~CooldownActive(wdLast, now)
       IN  /\ wdLast' = IF trip THEN Some(now) ELSE wdLast
           /\ wdFirst' = IF reached THEN None ELSE first
           /\ wdCount' = IF reached THEN 0 ELSE consecutive
           /\ wDecision' = IF trip THEN [wDecision EXCEPT ![r] = Some(consecutive)]
                           ELSE wDecision
           /\ wNow' = IF trip THEN wNow ELSE [wNow EXCEPT ![r] = 0]
           /\ wpc' = [wpc EXCEPT ![r] = IF trip THEN "notify" ELSE "idle"]
    /\ wdLock' = None
    /\ UNCHANGED <<clock, threshold, restarts, lastAt, notices>>

\* A critical section whose guard lives on to the end of the function when a
\* restart is decided.
CountAndDecideKeepsLock(r) ==
    /\ wpc[r] = "locked"
    /\ wdLock = Some(r)
    /\ LET now == wNow[r]
           fresh == WindowExpired(wdFirst, now)
           first == IF fresh THEN Some(now) ELSE wdFirst
           consecutive == (IF fresh THEN 0 ELSE wdCount) + 1
           trip == /\ ThresholdReached(consecutive, threshold)
                   /\ ~CooldownActive(wdLast, now)
       IN  IF trip
           THEN /\ wdLast' = Some(now)
                /\ wdFirst' = None
                /\ wdCount' = 0
                /\ wDecision' = [wDecision EXCEPT ![r] = Some(consecutive)]
                /\ wNow' = wNow
                /\ wpc' = [wpc EXCEPT ![r] = "notify"]
                /\ wdLock' = wdLock
           ELSE /\ wdLast' = wdLast
                /\ wdFirst' = first
                /\ wdCount' = consecutive
                /\ wDecision' = wDecision
                /\ wNow' = [wNow EXCEPT ![r] = 0]
                /\ wpc' = [wpc EXCEPT ![r] = "idle"]
                /\ wdLock' = None
    /\ UNCHANGED <<clock, threshold, restarts, lastAt, notices>>

\* Lines 121-167: the critical section, the guard dropped at line 164, and the
\* early return when no restart was decided (the locals die with the call).
CountAndDecide(r) ==
    /\ wpc[r] = "locked"
    /\ wdLock = Some(r)
    /\ LET now == wNow[r]
           fresh == WindowExpired(wdFirst, now)
           first == IF fresh THEN Some(now) ELSE wdFirst
           consecutive == (IF fresh THEN 0 ELSE wdCount) + 1
           trip == /\ ThresholdReached(consecutive, threshold)
                   /\ ~CooldownActive(wdLast, now)
       IN  IF trip
           THEN /\ wdLast' = Some(now)
                /\ wdFirst' = None
                /\ wdCount' = 0
                /\ wDecision' = [wDecision EXCEPT ![r] = Some(consecutive)]
                /\ wNow' = wNow
                /\ wpc' = [wpc EXCEPT ![r] = "notify"]
           ELSE /\ wdLast' = wdLast
                /\ wdFirst' = first
                /\ wdCount' = consecutive
                /\ wDecision' = wDecision
                /\ wNow' = [wNow EXCEPT ![r] = 0]
                /\ wpc' = [wpc EXCEPT ![r] = "idle"]
    /\ wdLock' = None
    /\ UNCHANGED <<clock, threshold, restarts, lastAt, notices>>

\* A notification whose failure ends handle_network_failure, as a `?` on
\* the send would.
NotifyAdminOrReturn(r, sent_ok) ==
    /\ wpc[r] = "notify"
    /\ notices' = notices + 1
    /\ IF sent_ok
       THEN /\ wpc' = [wpc EXCEPT ![r] = "callback"]
            /\ UNCHANGED <<wNow, wDecision>>
       ELSE /\ wpc' = [wpc EXCEPT ![r] = "idle"]
            /\ wNow' = [wNow EXCEPT ![r] = 0]
            /\ wDecision' = [wDecision EXCEPT ![r] = None]
    /\ UNCHANGED <<clock, threshold, wdFirst, wdCount, wdLast, wdLock,
                   restarts, lastAt>>

\* Lines 170-178: notify_admin_group(...).await, which sends only when an
\* admin group is configured; a failed send (sent_ok false) is logged in
\* notifier.rs lines 11-22 and nothing is returned to the caller.
NotifyAdmin(r, sent_ok) ==
    /\ wpc[r] = "notify"
    /\ notices' = notices + 1
    /\ wpc' = [wpc EXCEPT ![r] = "callback"]
    /\ UNCHANGED <<clock, threshold, wdFirst, wdCount, wdLast, wdLock, wNow,
                   wDecision, restarts, lastAt>>

\* Line 180: (self.restart_callback)(); then the call returns.
InvokeRestart(r) ==
    /\ wpc[r] = "callback"
    /\ restarts' = restarts + 1
    /\ lastAt' = Some(clock)
    /\ wNow' = [wNow EXCEPT ![r] = 0]
    /\ wDecision' = [wDecision EXCEPT ![r] = None]
    /\ wpc' = [wpc EXCEPT ![r] = "idle"]
    /\ UNCHANGED <<clock, threshold, wdFirst, wdCount, wdLast, wdLock, notices>>

\* ================================================================== shutdown
\* Listener 0 is the one Shutdown::new returns; the others come from subscribe.
Listeners == 0..NListeners

\* ShutdownListener::is_triggered: *self.receiver.borrow().
IsTriggered(l) == sdValue

\* watch::Sender::send stores the value only while a receiver exists;
\* trigger drops the error it returns otherwise.
SendAlwaysStores(rx) == TRUE
SendStores(rx) == rx > 0

\* Shutdown::new: watch::channel(false) with its first receiver.
ShutdownInit ==
    /\ sdValue = FALSE
    /\ sdVersion = 0
    /\ sdRx = 1
    /\ lst = [l \in Listeners |-> IF l = 0 THEN "live" ELSE "absent"]
    /\ lseen = [l \in Listeners |-> 0]
    /\ lpc = [l \in Listeners |-> "idle"]
    /\ trigCalls = 0

\* Shutdown::subscribe: a new receiver that has seen the current version.
Subscribe(l) ==
    /\ lst[l] = "absent"
    /\ lst' = [lst EXCEPT ![l] = "live"]
    /\ lseen' = [lseen EXCEPT ![l] = sdVersion]
    /\ sdRx' = sdRx + 1
    /\ UNCHANGED <<sdValue, sdVersion, lpc, trigCalls>>

\* A ShutdownListener goes out of scope (main drops listener 0 at once; a
\* task owning a listener ends; a select! drops its notified() future).
DropListener(l) ==
    /\ lst[l] = "live"
    /\ lst' = [lst EXCEPT ![l] = "dropped"]
    /\ lpc' = [lpc EXCEPT ![l] = "idle"]
    /\ sdRx' = sdRx - 1
    /\ UNCHANGED <<sdValue, sdVersion, lseen, trigCalls>>

\* A trigger that sends the negation of the value held.
TriggerToggles ==
    /\ trigCalls < MaxTriggers
    /\ trigCalls' = trigCalls + 1
    /\ IF SendStores(sdRx)
       THEN sdValue' = ~sdValue /\ sdVersion' = sdVersion + 1
       ELSE UNCHANGED <<sdValue, sdVersion>>
    /\ UNCHANGED <<sdRx, lst, lseen, lpc>>

\* Shutdown::trigger: let _ = self.sender.send(true).
Trigger ==
    /\ trigCalls < MaxTriggers
    /\ trigCalls' = trigCalls + 1
    /\ IF SendStores(sdRx)
       THEN sdValue' = TRUE /\ sdVersion' = sdVersion + 1
       ELSE UNCHANGED <<sdValue, sdVersion>>
    /\ UNCHANGED <<sdRx, lst, lseen, lpc>>

\* ShutdownListener::notified, lines 32-35: return if the value is true, else
\* await receiver.changed().
NotifiedCall(l) ==
    /\ lst[l] = "live"
    /\ lpc[l] # "waiting"
    /\ lpc' = [lpc EXCEPT ![l] = IF sdValue THEN "returned" ELSE "waiting"]
    /\ UNCHANGED <<sdValue, sdVersion, sdRx, lst, lseen, trigCalls>>

\* receiver.changed() completes once the version differs from the one seen.
NotifiedWake(l) ==
    /\ lst[l] = "live"
    /\ lpc[l] = "waiting"
    /\ sdVersion # lseen[l]
    /\ lseen' = [lseen EXCEPT ![l] = sdVersion]
    /\ lpc' = [lpc EXCEPT ![l] = "returned"]
    /\ UNCHANGED <<sdValue, sdVersion, sdRx, lst, trigCalls>>

\* ================================================================== processor
\* MessageJob, reduced to the fields handle_batch and delete_spam read:
\* chat_id, message_id and urls. A URL is "web" (http or https) or "bad"
\* (anything Url::parse or the scheme test of fetch rejects). The messages of
\* a run: two chats whose message ids overlap, with and without URLs.
Jobs ==
    { [chat |-> 1, mid |-> 1, urls |-> <<>>],
      [chat |-> 1, mid |-> 2, urls |-> <<"web">>],
      [chat |-> 2, mid |-> 1, urls |-> <<"web">>],
      [chat |-> 2, mid |-> 2, urls |-> <<"bad">>] }

\* Line 128: job.message_id.0.to_string().
Key(job) == ToString(job.mid)

\* Keys a ClassificationMap may carry: every message-id string and one the
\* classifier invented.
DecisionKeys == {ToString(j.mid) : j \in Jobs} \cup {"x"}

\* ClassificationMap, reduced to decision.spam.
ClassificationMaps == UNION {[K -> BOOLEAN] : K \in SUBSET DecisionKeys}

EmptyMap == [k \in {} |-> FALSE]

\* HashMap::insert: a later value replaces an earlier one under the same key.
MapInsert(m, k, v) == [x \in DOMAIN m \cup {k} |-> IF x = k THEN v ELSE m[x]]

\* HashMap::remove, and the map an into_iter has still to yield.
MapRemove(m, k) == [x \in DOMAIN m \ {k} |-> m[x]]

\* The listener the processor task owns (app.rs line 82).
ProcListener == 1

\* The locals of handle_batch die when it returns.
ClearWork ==
    /\ batch' = <<>>
    /\ cur' = None
    /\ urlsLeft' = <<>>
    /\ entry' = None
    /\ entries' = <<>>
    /\ lookup' = EmptyMap
    /\ pending' = EmptyMap
    /\ curDel' = None

\* handle_batch returns Ok(()) or, through `?`, an error.
ReturnOk == ClearWork /\ ppc' = "returnedOk"
ReturnErrLeavesLoop == ClearWork /\ ppc' = "exiting"
ReturnErr == ClearWork /\ ppc' = "returnedErr"

ProcessorInit ==
    /\ adminGroup \in BOOLEAN
    /\ apiKey \in BOOLEAN
    /\ submitted = {}
    /\ ppc = "top"
    /\ batch = <<>>
    /\ cur = None
    /\ urlsLeft = <<>>
    /\ entry = None
    /\ entries = <<>>
    /\ lookup = EmptyMap
    /\ pending = EmptyMap
    /\ curDel = None
    /\ batchJobs = <<>>
    /\ classification = None
    /\ classifyCalls = 0
    /\ deletes = <<>>
    /\ notes = <<>>
    /\ fetchCut = FALSE

\* The processor of a run in which no message reaches the queue.
ProcessorParked ==
    /\ ProcessorInit
    /\ adminGroup
    /\ apiKey

\* The coordinator once Application::initialize has run: main dropped the
\* listener Shutdown::new returned, the processor task owns its own.
ShutdownRunning ==
    /\ sdValue = FALSE
    /\ sdVersion = 0
    /\ sdRx = 1
    /\ lst = [l \in Listeners |->
                IF l = 0 THEN "dropped"
                ELSE IF l = ProcListener THEN "live" ELSE "absent"]
    /\ lseen = [l \in Listeners |-> 0]
    /\ lpc = [l \in Listeners |-> "idle"]
    /\ trigCalls = 0

\* A select! drops the notified() future of the branch it did not take.
DropNotified(l) ==
    /\ lpc' = [lpc EXCEPT ![l] = "idle"]
    /\ UNCHANGED <<sdValue, sdVersion, sdRx, lst, lseen, trigCalls>>

\* on_plain_message, line 353: state.queue.push(priority, job). Telegram
\* gives a message id once per chat.
SubmitJob(j, lane) ==
    /\ Cardinality(submitted) < MaxJobs
    /\ \A o \in submitted : o.chat # j.chat \/ o.mid # j.mid
    /\ submitted' = submitted \cup {j}
    /\ IF lane = "high" THEN PushLaneHigh(j) ELSE PushLaneNormal(j)
    /\ UNCHANGED <<sent, svars, adminGroup, apiKey, ppc, pwork, phist>>

\* A loop that does not look at the flag before it drains.
ProcLoopTopIgnoresShutdown ==
    /\ ppc = "top"
    /\ ppc' = "drain"
    /\ DrainLockHigh
    /\ UNCHANGED <<svars, adminGroup, apiKey, submitted, pwork, phist>>

\* run_loop, lines 53-57: leave the loop when triggered, else start
\* drain_ordered.
ProcLoopTop ==
    /\ ppc = "top"
    /\ IF IsTriggered(ProcListener)
       THEN ppc' = "exiting" /\ UNCHANGED qvars
       ELSE ppc' = "drain" /\ DrainLockHigh
    /\ UNCHANGED <<svars, adminGroup, apiKey, submitted, pwork, phist>>

\* run_loop, lines 58-64: the batch is empty; select! on sleep(500 ms) and
\* notified(), which is ready at once when already triggered.
ProcIdleWait ==
    /\ ppc = "drain"
    /\ drainPc = "idle"
    /\ drained = <<>>
    /\ NotifiedCall(ProcListener)
    /\ ppc' = IF IsTriggered(ProcListener) THEN "exiting" ELSE "sleep"
    /\ UNCHANGED <<qvars, adminGroup, apiKey, submitted, pwork, phist>>

\* Line 60: the sleep elapsed.
ProcSleepElapsed ==
    /\ ppc = "sleep"
    /\ DropNotified(ProcListener)
    /\ ppc' = "top"
    /\ UNCHANGED <<qvars, adminGroup, apiKey, submitted, pwork, phist>>

\* Line 61: notified() completed; break.
ProcSleepShutdown ==
    /\ ppc = "sleep"
    /\ NotifiedWake(ProcListener)
    /\ ppc' = "exiting"
    /\ UNCHANGED <<qvars, adminGroup, apiKey, submitted, pwork, phist>>

\* Lines 69-70 and spawn: the task ends and its listener is dropped.
ProcExit ==
    /\ ppc = "exiting"
    /\ DropListener(ProcListener)
    /\ ppc' = "stopped"
    /\ UNCHANGED <<qvars, adminGroup, apiKey, submitted, pwork, phist>>

\* run_loop line 65 and handle_batch lines 78-80: a non-empty batch.
ProcHandleBatch ==
    /\ ppc = "drain"
    /\ drainPc = "idle"
    /\ drained # <<>>
    /\ batch' = drained
    /\ batchJobs' = drained
    /\ ppc' = "job"
    /\ UNCHANGED <<qvars, svars, adminGroup, apiKey, submitted, cur, urlsLeft,
                   entry, entries, lookup, pending, curDel, classification,
                   classifyCalls, deletes, notes, fetchCut>>

\* handle_batch, lines 82-105: the for loop takes the next Job, unless
\* shutdown was triggered (return Ok).
ProcNextJob ==
    /\ ppc = "job"
    /\ batch # <<>>
    /\ IF IsTriggered(ProcListener)
       THEN ReturnOk
       ELSE /\ cur' = Some(Head(batch))
            /\ batch' = Tail(batch)
            /\ urlsLeft' = Head(batch).urls
            /\ entry' = Some(<<Key(Head(batch)), 0>>)
            /\ ppc' = "url"
            /\ UNCHANGED <<entries, lookup, pending, curDel>>
    /\ UNCHANGED <<qvars, svars, adminGroup, apiKey, submitted, phist>>

\* Lines 107-118, the select! as it is first polled. It polls its branches
\* from a random one (first): notified() is ready when already triggered;
\* fetch is ready at once for a URL it rejects (Ok(None)), and otherwise sends
\* its request and is pending.
ProcFetchStart(first) ==
    /\ ppc = "url"
    /\ urlsLeft # <<>>
    /\ IF IsTriggered(ProcListener) /\ (first = "shutdown" \/ Head(urlsLeft) = "web")
       THEN /\ NotifiedCall(ProcListener)
            /\ ReturnOk
       ELSE IF Head(urlsLeft) = "bad"
       THEN /\ urlsLeft' = Tail(urlsLeft)
            /\ UNCHANGED <<svars, ppc, batch, cur, entry, entries, lookup,
                           pending, curDel>>
       ELSE /\ NotifiedCall(ProcListener)
            /\ ppc' = "fetch"
            /\ UNCHANGED pwork
    /\ UNCHANGED <<qvars, adminGroup, apiKey, submitted, phist>>

\* Lines 109 and 118-125: the fetch in flight completes with a page, with no
\* content, or with an error, which `?` returns from handle_batch.
ProcFetchReturns(res) ==
    /\ ppc = "fetch"
    /\ DropNotified(ProcListener)
    /\ IF res = "err"
       THEN ReturnErr
       ELSE /\ urlsLeft' = Tail(urlsLeft)
            /\ entry' = IF res = "page"
                        THEN Some(<<Unwrap(entry)[1], Unwrap(entry)[2] + 1>>)
                        ELSE entry
            /\ ppc' = "url"
            /\ UNCHANGED <<batch, cur, entries, lookup, pending, curDel>>
    /\ UNCHANGED <<qvars, adminGroup, apiKey, submitted, phist>>

\* Lines 110-117: notified() completes while the fetch is in flight.
ProcFetchShutdown ==
    /\ ppc = "fetch"
    /\ NotifiedWake(ProcListener)
    /\ ReturnOk
    /\ UNCHANGED <<qvars, adminGroup, apiKey, submitted, phist>>

\* Lines 128-129: every URL of the Job is done.
ProcJobDone ==
    /\ ppc = "url"
    /\ urlsLeft = <<>>
    /\ lookup' = MapInsert(lookup, Key(Unwrap(cur)), Unwrap(cur))
    /\ entries' = Append(entries, Unwrap(entry))
    /\ cur' = None
    /\ entry' = None
    /\ ppc' = "job"
    /\ UNCHANGED <<batch, urlsLeft, pending, curDel>>
    /\ UNCHANGED <<qvars, svars, adminGroup, apiKey, submitted, phist>>

\* Lines 132-146, the select! as it is first polled, from a random branch
\* (first). classify, once polled, fails at once without an api key
\* (client.rs lines 20-24) and otherwise sends its request and is pending.
ProcClassifyStart(first) ==
    /\ ppc = "job"
    /\ batch = <<>>
    /\ LET polled == ~(IsTriggered(ProcListener) /\ first = "shutdown") IN
       /\ classifyCalls' = IF polled THEN classifyCalls + 1 ELSE classifyCalls
       /\ IF polled /\ ~apiKey
          THEN /\ UNCHANGED svars
               /\ ReturnErr
          ELSE IF IsTriggered(ProcListener)
          THEN /\ NotifiedCall(ProcListener)
               /\ ReturnOk
          ELSE /\ NotifiedCall(ProcListener)
               /\ ppc' = "classify"
               /\ UNCHANGED pwork
    /\ UNCHANGED <<qvars, adminGroup, apiKey, submitted, batchJobs,
                   classification, deletes, notes, fetchCut>>

\* Lines 138 and 146-148: the classify call in flight fails (the batch is
\* discarded through `?`) or returns a map, which apply_classification gets.
ProcClassifyReturns(res) ==
    /\ ppc = "classify"
    /\ DropNotified(ProcListener)
    /\ IF res = None
       THEN /\ ReturnErr
            /\ UNCHANGED classification
       ELSE /\ classification' = res
            /\ pending' = Unwrap(res)
            /\ ppc' = "apply"
            /\ UNCHANGED <<batch, cur, urlsLeft, entry, entries, lookup, curDel>>
    /\ UNCHANGED <<qvars, adminGroup, apiKey, submitted, batchJobs,
                   classifyCalls, deletes, notes, fetchCut>>

\* Lines 139-145: notified() completes while classify is in flight.
ProcClassifyShutdown ==
    /\ ppc = "classify"
    /\ NotifiedWake(ProcListener)
    /\ ReturnOk
    /\ UNCHANGED <<qvars, adminGroup, apiKey, submitted, phist>>

\* As ProcApplyNext, but a spam decision whose key the lookup lacks ends
\* apply_classification.
ProcApplyNextStopsOnMiss(k) ==
    /\ ppc = "apply"
    /\ k \in DOMAIN pending
    /\ IF pending[k] /\ k \in DOMAIN lookup
       THEN /\ pending' = MapRemove(pending, k)
            /\ curDel' = Some(lookup[k])
            /\ lookup' = MapRemove(lookup, k)
            /\ ppc' = "delete"
            /\ UNCHANGED <<batch, cur, urlsLeft, entry, entries>>
       ELSE IF pending[k]
       THEN ReturnOk
       ELSE /\ pending' = MapRemove(pending, k)
            /\ UNCHANGED <<curDel, lookup, ppc, batch, cur, urlsLeft, entry,
                           entries>>
    /\ UNCHANGED <<qvars, svars, adminGroup, apiKey, submitted, phist>>

\* apply_classification, lines 156-161: the iterator yields a decision, in
\* the HashMap's order; a spam decision whose key the lookup holds removes the
\* Job and starts delete_spam.
ProcApplyNext(k) ==
    /\ ppc = "apply"
    /\ k \in DOMAIN pending
    /\ pending' = MapRemove(pending, k)
    /\ IF pending[k] /\ k \in DOMAIN lookup
       THEN /\ curDel' = Some(lookup[k])
            /\ lookup' = MapRemove(lookup, k)
            /\ ppc' = "delete"
       ELSE UNCHANGED <<curDel, lookup, ppc>>
    /\ UNCHANGED <<batch, cur, urlsLeft, entry, entries>>
    /\ UNCHANGED <<qvars, svars, adminGroup, apiKey, submitted, phist>>

\* Line 172: the iterator is exhausted; handle_batch returns.
ProcApplyDone ==
    /\ ppc = "apply"
    /\ DOMAIN pending = {}
    /\ ReturnOk
    /\ UNCHANGED <<qvars, svars, adminGroup, apiKey, submitted, phist>>

\* delete_spam, lines 176-190: delete_message returns; on success, with an
\* admin group configured, the log is sent; on failure the error goes back to
\* apply_classification, which logs it.
ProcDeleteReturns(ok) ==
    /\ ppc = "delete"
    /\ deletes' = Append(deletes, <<Unwrap(curDel).chat, Unwrap(curDel).mid, ok>>)
    /\ IF ok /\ adminGroup
       THEN ppc' = "notify" /\ UNCHANGED curDel
       ELSE ppc' = "apply" /\ curDel' = None
    /\ UNCHANGED <<batch, cur, urlsLeft, entry, entries, lookup, pending>>
    /\ UNCHANGED <<qvars, svars, adminGroup, apiKey, submitted, batchJobs,
                   classification, classifyCalls, notes, fetchCut>>

\* delete_spam as above, with the call counted for the whole run.
ProcDeleteLogged(ok) ==
    /\ ProcDeleteReturns(ok)
    /\ delEver' = [delEver EXCEPT ![Unwrap(curDel).chat, Unwrap(curDel).mid] = @ + 1]
    /\ UNCHANGED hiEver

\* delete_spam, lines 193-211: send_message returns; a failure is only logged.
ProcNotifyReturns ==
    /\ ppc = "notify"
    /\ notes' = Append(notes, <<Unwrap(curDel).chat, Unwrap(curDel).mid>>)
    /\ curDel' = None
    /\ ppc' = "apply"
    /\ UNCHANGED <<batch, cur, urlsLeft, entry, entries, lookup, pending>>
    /\ UNCHANGED <<qvars, svars, adminGroup, apiKey, submitted, batchJobs,
                   classification, classifyCalls, deletes, fetchCut>>

\* run_loop, lines 65-68: an error of handle_batch is logged; the loop goes on.
ProcLoopBack ==
    /\ ppc \in {"returnedOk", "returnedErr"}
    /\ ppc' = "top"
    /\ batchJobs' = <<>>
    /\ classification' = None
    /\ classifyCalls' = 0
    /\ deletes' = <<>>
    /\ notes' = <<>>
    /\ fetchCut' = FALSE
    /\ UNCHANGED <<qvars, svars, adminGroup, apiKey, submitted, pwork>>

\* Shutdown::trigger, called by the signal task while the processor runs.
ProcTrigger ==
    /\ Trigger
    /\ fetchCut' = (fetchCut \/ ppc = "fetch")
    /\ UNCHANGED <<qvars, adminGroup, apiKey, submitted, ppc, pwork, batchJobs,
                   classification, classifyCalls, deletes, notes>>

\* ================================================================== instance guard
Procs == 1..NProcs

\* The calls of acquire: caller p > 0 is the call process p makes when it
\* starts; caller 0 is a second call made in process 1 while its guard is held
\* (instance_guard.rs line 126, "Another thread in same process?").
Callers == 0..NProcs

\* process::id() as the caller sees it.
PidOf(c) == IF c = 0 THEN 1 ELSE c

CallersOf(q) == {c \in Callers : PidOf(c) = q}

\* sysinfo finds the process: a call in it was started and it has neither
\* exited nor died.
IsProcessAlive(q) ==
    \E c \in CallersOf(q) : gpc[c] \notin {"absent", "dead", "failed", "done"}

GuardInit ==
    /\ skipGuard \in BOOLEAN
    /\ canKill \in BOOLEAN
    /\ files = <<>>
    /\ path = 0
    /\ gpc = [p \in Callers |-> "absent"]
    /\ gfd = [p \in Callers |-> 0]
    /\ gtodo = [p \in Callers |-> {}]
    /\ gtarget = [p \in Callers |-> 0]
    /\ gkilled = [p \in Callers |-> FALSE]
    /\ gret = [p \in Callers |-> "none"]
    /\ gtries = [p \in Callers |-> 0]

\* The data directory of a run in which no second process is started.
GuardParked ==
    /\ GuardInit
    /\ ~skipGuard
    /\ canKill

\* The kernel releases the flock of a file description when it is closed.
Released(fs, cs) ==
    [i \in 1..Len(fs) |->
        IF fs[i].lock \in {Some(c) : c \in cs}
        THEN [fs[i] EXCEPT !.lock = None] ELSE fs[i]]

\* A process that dies takes its calls with it and closes their files.
Kill(pcs, q) ==
    [c \in Callers |-> IF c \in CallersOf(q) /\ pcs[c] # "absent" THEN "dead" ELSE pcs[c]]

Closed(fds, q) == [c \in Callers |-> IF c \in CallersOf(q) THEN 0 ELSE fds[c]]

\* A process is started on the data directory.
Spawn(p) ==
    /\ p \in Procs
    /\ gpc[p] = "absent"
    /\ gpc' = [gpc EXCEPT ![p] = "start"]
    /\ UNCHANGED <<skipGuard, canKill, files, path, gfd, gtodo, gtarget,
                   gkilled, gret, gtries>>

\* terminate_conflicting_instances, lines 217-221: the processes of the scan
\* with the bot's signature, the current pid skipped.
EveryInstance(p) == {q \in Procs : IsProcessAlive(q)}
ConflictingInstances(p) == {q \in Procs \ {PidOf(p)} : IsProcessAlive(q)}

\* acquire, lines 32-46, and terminate_conflicting_instances, lines 210-216:
\* the scan takes a snapshot of the other processes with the bot's signature.
StartAcquire(p) ==
    /\ gpc[p] = "start"
    /\ IF skipGuard
       THEN gpc' = [gpc EXCEPT ![p] = "open"] /\ UNCHANGED gtodo
       ELSE /\ gpc' = [gpc EXCEPT ![p] = "scan"]
            /\ gtodo' = [gtodo EXCEPT ![p] = ConflictingInstances(p)]
    /\ UNCHANGED <<skipGuard, canKill, files, path, gfd, gtarget, gkilled,
                   gret, gtries>>

\* terminate_conflicting_instances, lines 217-239: the next process of the
\* snapshot goes to terminate_process; after the last one acquire goes on.
ScanNext(p) ==
    /\ gpc[p] = "scan"
    /\ IF gtodo[p] = {}
       THEN /\ gpc' = [gpc EXCEPT ![p] = "open"]
            /\ UNCHANGED <<gtodo, gtarget, gkilled, gret>>
       ELSE \E q \in gtodo[p] :
            /\ gtodo' = [gtodo EXCEPT ![p] = @ \ {q}]
            /\ gtarget' = [gtarget EXCEPT ![p] = q]
            /\ gkilled' = [gkilled EXCEPT ![p] = FALSE]
            /\ gret' = [gret EXCEPT ![p] = "scan"]
            /\ gpc' = [gpc EXCEPT ![p] = "tpCheck"]
    /\ UNCHANGED <<skipGuard, canKill, files, path, gfd, gtries>>

\* Where terminate_process returns to: the scan loop (line 223), or
\* handle_existing_instance, lines 133-139, which looks for a stale lock only
\* when nothing was killed.
AfterTerminate(p, killed) ==
    IF gret[p] = "scan" THEN "scan"
    ELSE IF killed THEN "elapsed" ELSE "hStale"

\* terminate_process, lines 175-177: a process that is gone is not killed.
TpCheck(p) ==
    /\ gpc[p] = "tpCheck"
    /\ gpc' = [gpc EXCEPT ![p] = IF IsProcessAlive(gtarget[p])
                                  THEN "tpTerm"
                                  ELSE AfterTerminate(p, FALSE)]
    /\ UNCHANGED <<skipGuard, canKill, files, path, gfd, gtodo, gtarget,
                   gkilled, gret, gtries>>

\* terminate_process, lines 179-188: SIGTERM. The target dies of it at once
\* (dies) or lives on, handling it.
TpTerm(p, dies) ==
    /\ gpc[p] = "tpTerm"
    /\ LET q == gtarget[p]
           signalled == IsProcessAlive(q) /\ canKill
       IN  /\ gkilled' = [gkilled EXCEPT ![p] = signalled]
           /\ IF signalled /\ dies
              THEN /\ gpc' = Kill([gpc EXCEPT ![p] = "tpKill"], q)
                   /\ gfd' = Closed(gfd, q)
                   /\ files' = Released(files, CallersOf(q))
              ELSE /\ gpc' = [gpc EXCEPT ![p] = "tpKill"]
                   /\ UNCHANGED <<gfd, files>>
    /\ UNCHANGED <<skipGuard, canKill, path, gtodo, gtarget, gret, gtries>>

\* terminate_process, lines 190-199: after a second, SIGKILL if the target is
\* still there.
TpKill(p) ==
    /\ gpc[p] = "tpKill"
    /\ LET q == gtarget[p]
           signalled == IsProcessAlive(q) /\ canKill
           killed == gkilled[p] \/ signalled
       IN  /\ gkilled' = [gkilled EXCEPT ![p] = killed]
           /\ IF signalled
              THEN /\ gpc' = Kill([gpc EXCEPT ![p] = AfterTerminate(p, killed)], q)
                   /\ gfd' = Closed(gfd, q)
                   /\ files' = Released(files, CallersOf(q))
              ELSE /\ gpc' = [gpc EXCEPT ![p] = AfterTerminate(p, killed)]
                   /\ UNCHANGED <<gfd, files>>
    /\ UNCHANGED <<skipGuard, canKill, path, gtodo, gtarget, gret, gtries>>

\* An I/O error that `?` or `return Err(err.into())` propagates out of
\* acquire (lines 53, 57, 70, 72): acquire's `file`, if open, is dropped,
\* which closes it and so releases a lock it holds.
IoError(p) ==
    /\ gpc' = [gpc EXCEPT ![p] = "failed"]
    /\ gfd' = [gfd EXCEPT ![p] = 0]
    /\ files' = Released(files, {p})
    /\ UNCHANGED <<skipGuard, canKill, path, gtodo, gtarget, gkilled, gret,
                   gtries>>

\* acquire, lines 48-53: open the lock file, creating it when it is absent;
\* err is an I/O error of open.
OpenLockFile(p, err) ==
    /\ gpc[p] = "open"
    /\ IF err
       THEN IoError(p)
       ELSE /\ IF path = 0
               THEN /\ files' = Append(files, [content |-> None, lock |-> None])
                    /\ path' = Len(files) + 1
                    /\ gfd' = [gfd EXCEPT ![p] = Len(files) + 1]
               ELSE /\ gfd' = [gfd EXCEPT ![p] = path]
                    /\ UNCHANGED <<files, path>>
            /\ gpc' = [gpc EXCEPT ![p] = "lock"]
            /\ UNCHANGED <<skipGuard, canKill, gtodo, gtarget, gkilled, gret,
                           gtries>>

\* A try_lock_exclusive whose I/O error sends acquire round the loop again.
TryLockRetriesOnError(p, err) ==
    /\ gpc[p] = "lock"
    /\ IF err
       THEN /\ gpc' = [gpc EXCEPT ![p] = "elapsed"]
            /\ UNCHANGED files
       ELSE IF files[gfd[p]].lock = None
       THEN /\ files' = [files EXCEPT ![gfd[p]].lock = Some(p)]
            /\ gpc' = [gpc EXCEPT ![p] = "truncate"]
       ELSE /\ gpc' = [gpc EXCEPT ![p] = "hRead"]
            /\ UNCHANGED files
    /\ UNCHANGED <<skipGuard, canKill, path, gfd, gtodo, gtarget, gkilled,
                   gret, gtries>>

\* acquire, lines 55-72: try_lock_exclusive on the open file; WouldBlock
\* leads to handle_existing_instance, any other error (err) is returned.
TryLock(p, err) ==
    /\ gpc[p] = "lock"
    /\ IF err
       THEN IoError(p)
       ELSE /\ IF files[gfd[p]].lock = None
               THEN /\ files' = [files EXCEPT ![gfd[p]].lock = Some(p)]
                    /\ gpc' = [gpc EXCEPT ![p] = "truncate"]
               ELSE /\ gpc' = [gpc EXCEPT ![p] = "hRead"]
                    /\ UNCHANGED files
            /\ UNCHANGED <<skipGuard, canKill, path, gfd, gtodo, gtarget,
                           gkilled, gret, gtries>>

\* write_lock_info, lines 116-117: set_len(0), or its error.
TruncateInfo(p, err) ==
    /\ gpc[p] = "truncate"
    /\ IF err
       THEN IoError(p)
       ELSE /\ files' = [files EXCEPT ![gfd[p]].content = None]
            /\ gpc' = [gpc EXCEPT ![p] = "write"]
            /\ UNCHANGED <<skipGuard, canKill, path, gfd, gtodo, gtarget,
                           gkilled, gret, gtries>>

\* write_lock_info, lines 118-119, and acquire, lines 58-67: the pid is
\* written and the guard returned; or write_all fails before writing.
WriteInfo(p, err) ==
    /\ gpc[p] = "write"
    /\ IF err
       THEN IoError(p)
       ELSE /\ files' = [files EXCEPT ![gfd[p]].content = Some(PidOf(p))]
            /\ gpc' = [gpc EXCEPT ![p] = "held"]
            /\ UNCHANGED <<skipGuard, canKill, path, gfd, gtodo, gtarget,
                           gkilled, gret, gtries>>

\* handle_existing_instance, lines 124-133, with read_lock_info: the file the
\* path names is read. No info: remove the file. The own pid: an error, and
\* acquire's `file` is dropped. Another pid: terminate_process. A read error
\* other than NotFound (err, line 170) is returned.
ReadLockInfo(p, err) ==
    /\ gpc[p] = "hRead"
    /\ IF err
       THEN IoError(p)
       ELSE /\ LET info == IF path = 0 THEN None ELSE files[path].content IN
               IF info = None
               THEN /\ gpc' = [gpc EXCEPT ![p] = "hRemove"]
                    /\ UNCHANGED <<gfd, gtarget, gkilled, gret>>
               ELSE IF Unwrap(info) = PidOf(p)
               THEN /\ gpc' = [gpc EXCEPT ![p] = "failed"]
                    /\ gfd' = [gfd EXCEPT ![p] = 0]
                    /\ UNCHANGED <<gtarget, gkilled, gret>>
               ELSE /\ gpc' = [gpc EXCEPT ![p] = "tpCheck"]
                    /\ gtarget' = [gtarget EXCEPT ![p] = Unwrap(info)]
                    /\ gkilled' = [gkilled EXCEPT ![p] = FALSE]
                    /\ gret' = [gret EXCEPT ![p] = "handle"]
                    /\ UNCHANGED gfd
            /\ UNCHANGED <<skipGuard, canKill, files, path, gtodo, gtries>>

\* handle_existing_instance, line 139: is the recorded holder gone?
CheckStale(p) ==
    /\ gpc[p] = "hStale"
    /\ gpc' = [gpc EXCEPT ![p] = IF IsProcessAlive(gtarget[p])
                                  THEN "elapsed" ELSE "hRemove"]
    /\ UNCHANGED <<skipGuard, canKill, files, path, gfd, gtodo, gtarget,
                   gkilled, gret, gtries>>

\* handle_existing_instance, lines 141 and 145: fs::remove_file(lock_path),
\* whose error is dropped.
RemoveStale(p) ==
    /\ gpc[p] = "hRemove"
    /\ path' = 0
    /\ gpc' = [gpc EXCEPT ![p] = "elapsed"]
    /\ UNCHANGED <<skipGuard, canKill, files, gfd, gtodo, gtarget, gkilled,
                   gret, gtries>>

\* An acquire without the wait ceiling: it sleeps and loops whatever the time.
CheckElapsedNoCeiling(p, timedOut) ==
    /\ gpc[p] = "elapsed"
    /\ gfd' = [gfd EXCEPT ![p] = 0]
    /\ gpc' = [gpc EXCEPT ![p] = "open"]
    /\ UNCHANGED <<skipGuard, canKill, files, path, gtodo, gtarget, gkilled,
                   gret, gtries>>

\* acquire, lines 75-83: past the wait ceiling (timedOut, or the attempts the
\* model explores are used up) it fails; else it drops `file`, sleeps and
\* loops. The file dropped here holds no lock.
CheckElapsed(p, timedOut) ==
    /\ gpc[p] = "elapsed"
    /\ gfd' = [gfd EXCEPT ![p] = 0]
    /\ IF timedOut \/ gtries[p] + 1 >= MaxAttempts
       THEN /\ gpc' = [gpc EXCEPT ![p] = "failed"]
            /\ UNCHANGED gtries
       ELSE /\ gpc' = [gpc EXCEPT ![p] = "open"]
            /\ gtries' = [gtries EXCEPT ![p] = @ + 1]
    /\ UNCHANGED <<skipGuard, canKill, files, path, gtodo, gtarget, gkilled,
                   gret>>

\* Drop, line 90: self.file.unlock().
DropUnlock(p) ==
    /\ gpc[p] = "held"
    /\ files' = Released(files, {p})
    /\ gpc' = [gpc EXCEPT ![p] = "dropRemove"]
    /\ UNCHANGED <<skipGuard, canKill, path, gfd, gtodo, gtarget, gkilled,
                   gret, gtries>>

\* A Drop that closes the file and leaves it in the data directory.
DropLeavesFile(p) ==
    /\ gpc[p] = "dropRemove"
    /\ gfd' = [gfd EXCEPT ![p] = 0]
    /\ gpc' = [gpc EXCEPT ![p] = "done"]
    /\ UNCHANGED <<skipGuard, canKill, files, path, gtodo, gtarget, gkilled,
                   gret, gtries>>

\* Drop, lines 91-100: fs::remove_file(&self.path), NotFound tolerated; then
\* the file is closed.
DropRemove(p) ==
    /\ gpc[p] = "dropRemove"
    /\ path' = 0
    /\ gfd' = [gfd EXCEPT ![p] = 0]
    /\ gpc' = [gpc EXCEPT ![p] = "done"]
    /\ UNCHANGED <<skipGuard, canKill, files, gtodo, gtarget, gkilled, gret,
                   gtries>>

\* The call returned a guard that Drop has not taken.
HoldsGuard(p) == gpc[p] = "held"

\* A second acquire is called in process 1, which holds a guard.
AcquireAgain ==
    /\ gpc[0] = "absent"
    /\ HoldsGuard(1)
    /\ gpc' = [gpc EXCEPT ![0] = "start"]
    /\ UNCHANGED <<skipGuard, canKill, files, path, gfd, gtodo, gtarget,
                   gkilled, gret, gtries>>

\* ================================================================== application
\* The listener run subscribes for itself (app.rs line 117) and the one it
\* hands to the Telegram dispatcher (line 119).
RunListener == 2
TelegramListener == 3

\* The positions of run at which it waits for a subsystem under the grace
\* period shutdown_timeout (line 118).
WaitPositions == {"waitTelegram", "waitScheduler", "waitWhitelist", "joinProcessor"}

\* SpamGuardApp as initialize returns it: the processor task is spawned, run
\* is about to be called.
AppInit ==
    /\ apc = "startNotify"
    /\ telegramCompleted = FALSE
    /\ tg = "unstarted"
    /\ ptask = "running"
    /\ waited = 0
    /\ warned = {}

\* install_signal_handlers, shutdown.rs lines 43-62: CTRL+C or SIGTERM calls
\* trigger.
SignalTrigger ==
    /\ apc # "done"
    /\ Trigger
    /\ UNCHANGED avars

\* The dispatcher ends, of itself or having seen the shutdown, and drops the
\* listener it was given.
TelegramStops ==
    /\ tg = "running"
    /\ tg' = "done"
    /\ DropListener(TelegramListener)
    /\ UNCHANGED <<apc, telegramCompleted, ptask, waited, warned>>

\* The processor task leaves run_loop (processor.rs lines 53-56, 61-64) once
\* it reads the shutdown as triggered, and drops its listener.
ProcessorStops ==
    /\ ptask = "running"
    /\ IsTriggered(ProcListener)
    /\ ptask' = "finished"
    /\ DropListener(ProcListener)
    /\ UNCHANGED <<apc, telegramCompleted, tg, waited, warned>>

\* Time passes while run waits; the sleep or timeout it waits under is due
\* when ShutdownTimeout has passed.
AppTick ==
    /\ apc \in WaitPositions
    /\ waited < ShutdownTimeout
    /\ waited' = waited + 1
    /\ UNCHANGED <<apc, telegramCompleted, tg, ptask, warned, svars>>

\* run, line 115: the start notice is sent, or the send fails; either way
\* notify_admin_group returns.
RunNotifyStarted ==
    /\ apc = "startNotify"
    /\ apc' = "subscribe"
    /\ UNCHANGED <<telegramCompleted, tg, ptask, waited, warned, svars>>

\* run, line 117: shutdown.subscribe().
RunSubscribe ==
    /\ apc = "subscribe"
    /\ Subscribe(RunListener)
    /\ apc' = "startTelegram"
    /\ UNCHANGED <<telegramCompleted, tg, ptask, waited, warned>>

\* run, line 119: telegram.run(shutdown.subscribe()).
RunStartTelegram ==
    /\ apc = "startTelegram"
    /\ Subscribe(TelegramListener)
    /\ tg' = "running"
    /\ apc' = "select"
    /\ UNCHANGED <<telegramCompleted, ptask, waited, warned>>

\* run, line 123: select! polls shutdown_listener.notified().
RunSelectPoll ==
    /\ apc = "select"
    /\ lpc[RunListener] = "idle"
    /\ NotifiedCall(RunListener)
    /\ UNCHANGED avars

\* run, line 123: the pending notified() is woken by a stored trigger.
RunSelectWake ==
    /\ apc = "select"
    /\ NotifiedWake(RunListener)
    /\ UNCHANGED avars

\* run, lines 123-125: the notified() branch is taken.
RunSelectNotified ==
    /\ apc = "select"
    /\ lpc[RunListener] = "returned"
    /\ DropNotified(RunListener)
    /\ apc' = "trigger"
    /\ UNCHANGED <<telegramCompleted, tg, ptask, waited, warned>>

\* A run that goes on to the scheduler when the dispatcher has ended,
\* without the trigger of line 136.
RunSelectTelegramNoTrigger ==
    /\ apc = "select"
    /\ lpc[RunListener] # "returned"
    /\ tg = "done"
    /\ DropNotified(RunListener)
    /\ telegramCompleted' = TRUE
    /\ apc' = "waitScheduler"
    /\ UNCHANGED <<tg, ptask, waited, warned>>

\* run, lines 126-133: the dispatcher has ended and its branch is taken.
RunSelectTelegram ==
    /\ apc = "select"
    /\ lpc[RunListener] # "returned"
    /\ tg = "done"
    /\ DropNotified(RunListener)
    /\ telegramCompleted' = TRUE
    /\ apc' = "trigger"
    /\ UNCHANGED <<tg, ptask, waited, warned>>

\* run, lines 136-140: shutdown.trigger(), then on to the dispatcher unless
\* it has completed.
RunTrigger ==
    /\ apc = "trigger"
    /\ IF SendStores(sdRx)
       THEN sdValue' = TRUE /\ sdVersion' = sdVersion + 1
       ELSE UNCHANGED <<sdValue, sdVersion>>
    /\ apc' = IF telegramCompleted THEN "waitScheduler" ELSE "waitTelegram"
    /\ waited' = 0
    /\ UNCHANGED <<sdRx, lst, lseen, lpc, trigCalls, telegramCompleted, tg,
                   ptask, warned>>

\* run, lines 142-146: the dispatcher has ended within the grace period.
RunTelegramStopped ==
    /\ apc = "waitTelegram"
    /\ tg = "done"
    /\ apc' = "waitScheduler"
    /\ waited' = 0
    /\ UNCHANGED <<telegramCompleted, tg, ptask, warned, svars>>

\* run, lines 147-153: the sleep is over first; run warns and goes on.
RunTelegramTimeout ==
    /\ apc = "waitTelegram"
    /\ waited = ShutdownTimeout
    /\ warned' = warned \cup {"telegram"}
    /\ apc' = "waitScheduler"
    /\ waited' = 0
    /\ UNCHANGED <<telegramCompleted, tg, ptask, svars>>

\* A run whose wait for the scheduler has no timeout: time passes, it waits.
RunSchedulerWaitsOn ==
    /\ apc = "waitScheduler"
    /\ waited = ShutdownTimeout
    /\ UNCHANGED <<avars, svars>>

\* run, lines 157-169: timeout(..) is over before scheduler.shutdown().
RunSchedulerTimeout ==
    /\ apc = "waitScheduler"
    /\ waited = ShutdownTimeout
    /\ warned' = warned \cup {"scheduler"}
    /\ apc' = "waitWhitelist"
    /\ waited' = 0
    /\ UNCHANGED <<telegramCompleted, tg, ptask, svars>>

\* run, lines 157-161: scheduler.shutdown() returns, Ok or Err, in time.
RunSchedulerReturns ==
    /\ apc = "waitScheduler"
    /\ apc' = "waitWhitelist"
    /\ waited' = 0
    /\ UNCHANGED <<telegramCompleted, tg, ptask, warned, svars>>

\* run, lines 171-177: timeout(..) is over before whitelist.close().
RunWhitelistTimeout ==
    /\ apc = "waitWhitelist"
    /\ waited = ShutdownTimeout
    /\ warned' = warned \cup {"db"}
    /\ apc' = "joinProcessor"
    /\ waited' = 0
    /\ UNCHANGED <<telegramCompleted, tg, ptask, svars>>

\* run, line 171: whitelist.close() returns in time.
RunWhitelistReturns ==
    /\ apc = "waitWhitelist"
    /\ apc' = "joinProcessor"
    /\ waited' = 0
    /\ UNCHANGED <<telegramCompleted, tg, ptask, warned, svars>>

\* run, lines 182-188: the processor task has ended; the handle yields.
RunProcessorJoined ==
    /\ apc = "joinProcessor"
    /\ ptask = "finished"
    /\ apc' = "stopNotify"
    /\ waited' = 0
    /\ UNCHANGED <<telegramCompleted, tg, ptask, warned, svars>>

\* run, lines 189-196: the sleep is over first; processor_handle.abort()
\* cancels the task if it is still there, and its listener goes with it.
RunProcessorTimeout ==
    /\ apc = "joinProcessor"
    /\ waited = ShutdownTimeout
    /\ warned' = warned \cup {"processor"}
    /\ IF ptask = "running"
       THEN ptask' = "aborted" /\ DropListener(ProcListener)
       ELSE UNCHANGED <<ptask, svars>>
    /\ apc' = "stopNotify"
    /\ waited' = 0
    /\ UNCHANGED <<telegramCompleted, tg>>

\* run, lines 199-201: the stop notice is sent or fails, and run returns Ok.
RunNotifyStopped ==
    /\ apc = "stopNotify"
    /\ apc' = "done"
    /\ UNCHANGED <<telegramCompleted, tg, ptask, waited, warned, svars>>

\* ================================================================== main
\* main has called initialize, which has returned the application.
MainRunning == mpc = "run"

\* The process has just been started.
MainInit == mpc = "config"

\* The application before initialize has built any part of it.
AppUnbuilt ==
    /\ apc = "startNotify"
    /\ telegramCompleted = FALSE
    /\ tg = "unstarted"
    /\ ptask = "unspawned"
    /\ waited = 0
    /\ warned = {}

\* main returns an error: the process exits.
MainFails ==
    /\ mpc' = "exited"
    /\ UNCHANGED <<svars, avars>>

\* main.rs line 18: config::load_config()?.
MainLoadConfig(ok) ==
    /\ mpc = "config"
    /\ IF ok THEN mpc' = "dirs" /\ UNCHANGED <<svars, avars>> ELSE MainFails

\* main.rs line 19: directories::ensure_directories(..)?.
MainEnsureDirectories(ok) ==
    /\ mpc = "dirs"
    /\ IF ok THEN mpc' = "tracing" /\ UNCHANGED <<svars, avars>> ELSE MainFails

\* main.rs line 20: logging::init_tracing(..)?.
MainInitTracing(ok) ==
    /\ mpc = "tracing"
    /\ IF ok THEN mpc' = "update" /\ UNCHANGED <<svars, avars>> ELSE MainFails

\* main.rs lines 22-24: auto_update_on_startup, whose error is only logged.
MainAutoUpdate ==
    /\ mpc = "update"
    /\ mpc' = "shutdown"
    /\ UNCHANGED <<svars, avars>>

\* main.rs line 26: let (shutdown, _) = Shutdown::new(): the listener that
\* new returns is dropped at once.
MainNewShutdown ==
    /\ mpc = "shutdown"
    /\ DropListener(0)
    /\ mpc' = "signals"
    /\ UNCHANGED avars

\* main.rs line 27: install_signal_handlers.
MainInstallSignalHandlers ==
    /\ mpc = "signals"
    /\ mpc' = "pool"
    /\ UNCHANGED <<svars, avars>>

\* The positions of main at which the signal handlers are installed.
SignalsInstalled == {"pool", "clients", "spawn", "scheduler", "run"}

\* shutdown.rs lines 43-62: a signal that arrives while main is still in
\* initialize.
StartupSignal ==
    /\ mpc \in SignalsInstalled \ {"run"}
    /\ Trigger
    /\ UNCHANGED <<avars, mvars>>

\* initialize, lines 47-48: db::init_pool(..).await?.
InitPool(ok) ==
    /\ mpc = "pool"
    /\ IF ok THEN mpc' = "clients" /\ UNCHANGED <<svars, avars>> ELSE MainFails

\* initialize, lines 50-73: the HTTP client, the classifier client, the web
\* fetcher, the bot, the queue and the Telegram service are built.
InitClients(ok) ==
    /\ mpc = "clients"
    /\ IF ok THEN mpc' = "spawn" /\ UNCHANGED <<svars, avars>> ELSE MainFails

\* initialize, lines 75-82: processor.clone().spawn(shutdown.subscribe()).
InitSpawnProcessor ==
    /\ mpc = "spawn"
    /\ Subscribe(ProcListener)
    /\ ptask' = "running"
    /\ mpc' = "scheduler"
    /\ UNCHANGED <<apc, telegramCompleted, tg, waited, warned>>

\* initialize, lines 84-87: configure_restart_jobs(..).await?, which starts
\* the scheduler; then main calls run (main.rs line 30).
InitScheduler(ok) ==
    /\ mpc = "scheduler"
    /\ IF ok THEN mpc' = "run" /\ UNCHANGED <<svars, avars>> ELSE MainFails

\* The processor task of a process whose main is still in initialize.
StartupProcessorStops ==
    /\ mpc \in {"scheduler", "exited"}
    /\ ProcessorStops
    /\ UNCHANGED mvars

\* The subsystems main has started: the queue (app.rs line 61), the processor
\* (line 82), the scheduler (line 87), and the listener with its watchdog
\* (run, line 119).
SubsystemsStarted ==
    (IF mpc \in {"spawn", "scheduler", "run"} THEN {"queue"} ELSE {})
    \cup (IF ptask # "unspawned" THEN {"processor"} ELSE {})
    \cup (IF mpc = "run" THEN {"scheduler"} ELSE {})
    \cup (IF tg # "unstarted" THEN {"listener", "watchdog"} ELSE {})

\* ================================================================== urls
\* A text is a sequence of characters. "S" stands for a scheme prefix the
\* regex asks for, http:// or https://, taken as one character; "a" for any
\* character that is neither whitespace nor one normalize_url looks at.
TextChars == {"S", " ", "a", "(", ")", "."}
Texts == UNION {[1..n -> TextChars] : n \in 0..MaxTextLen}

\* char::is_whitespace, and the regex class \s.
IsWhitespace(c) == c = " "

\* URL_REGEX, https?://[^\s]+, tried at position i: the end of the longest
\* match that starts there, or 0 when there is none.
MatchEnd(text, i) ==
    IF text[i] = "S" /\ i < Len(text) /\ ~IsWhitespace(text[i + 1])
    THEN LET ends == {j \in (i + 1)..Len(text) :
                        \A k \in (i + 1)..j : ~IsWhitespace(text[k])}
         IN  CHOOSE j \in ends : \A k \in ends : k <= j
    ELSE 0

\* Regex::find_iter from position i: the leftmost matches, none overlapping.
RECURSIVE FindIter(_, _)
FindIter(text, i) ==
    IF i > Len(text) THEN <<>>
    ELSE IF MatchEnd(text, i) = 0 THEN FindIter(text, i + 1)
    ELSE <<SubSeq(text, i, MatchEnd(text, i))>> \o FindIter(text, MatchEnd(text, i) + 1)

\* count_char, lines 105-107, and str::contains for one character.
CountChar(value, needle) == Cardinality({i \in 1..Len(value) : value[i] = needle})
Contains(value, needle) == \E i \in 1..Len(value) : value[i] = needle

\* Line 84: raw.trim_end_matches(char::is_whitespace).
RECURSIVE TrimEndWhitespace(_)
TrimEndWhitespace(raw) ==
    IF raw # <<>> /\ IsWhitespace(raw[Len(raw)])
    THEN TrimEndWhitespace(SubSeq(raw, 1, Len(raw) - 1))
    ELSE raw

\* Lines 86-95: should_trim for the last character of a non-empty `cleaned`.
ShouldTrim(cleaned) ==
    LET last == cleaned[Len(cleaned)] IN
    CASE last = ")" -> ~Contains(cleaned, "(")
      [] last = "]" -> ~Contains(cleaned, "[")
      [] last = "}" -> ~Contains(cleaned, "{")
      [] last = ">" -> ~Contains(cleaned, "<")
      [] last = "\"" -> CountChar(cleaned, "\"") % 2 = 1
      [] last = "'" -> CountChar(cleaned, "'") % 2 = 1
      [] last \in {",", ".", "!", "?", ";"} -> TRUE
      [] OTHER -> FALSE

\* Lines 85-101: pop the last character while it should be trimmed.
RECURSIVE TrimLoop(_)
TrimLoop(cleaned) ==
    IF cleaned # <<>> /\ ShouldTrim(cleaned)
    THEN TrimLoop(SubSeq(cleaned, 1, Len(cleaned) - 1))
    ELSE cleaned

\* normalize_url, lines 83-103.
NormalizeUrl(raw) == TrimLoop(TrimEndWhitespace(raw))

\* Iterator::map, filter and take.
MapNormalize(found) == [i \in 1..Len(found) |-> NormalizeUrl(found[i])]
NotEmpty(url) == url # <<>>
Take(s, n) == SubSeq(s, 1, IF n < Len(s) THEN n ELSE Len(s))

\* extract_urls, lines 19-26.
ExtractUrls(text, limit) ==
    Take(SelectSeq(MapNormalize(FindIter(text, 1)), NotEmpty), limit)

\* on_plain_message (handler.rs line 338) is about to call extract_urls on
\* some message text with the configured limit.
UrlsInit ==
    /\ utext \in Texts
    /\ ulimit \in 0..MaxLimit
    /\ urls = None

\* No message text is looked at.
UrlsParked ==
    /\ utext = <<>>
    /\ ulimit = 0
    /\ urls = None

\* The call of extract_urls.
ExtractUrlsCall ==
    /\ urls = None
    /\ urls' = Some(ExtractUrls(utext, ulimit))
    /\ UNCHANGED <<utext, ulimit>>

\* ================================================================== specifications
QueueNext ==
    \/ \E p \in Producers : PushHigh(p) /\ UNCHANGED <<wvars, svars, pvars, gvars, avars, mvars, nvars, uvars, lvars>>
    \/ \E p \in Producers : PushNormal(p) /\ UNCHANGED <<wvars, svars, pvars, gvars, avars, mvars, nvars, uvars, lvars>>
    \/ (DrainLockHigh /\ UNCHANGED <<wvars, svars, pvars, gvars, avars, mvars, nvars, uvars, lvars>>)
    \/ (DrainLockNormal /\ UNCHANGED <<wvars, svars, pvars, gvars, avars, mvars, nvars, uvars, lvars>>)
    \/ (DrainTake /\ UNCHANGED <<wvars, svars, pvars, gvars, avars, mvars, nvars, uvars, lvars>>)
    \/ (SnapLockHigh /\ UNCHANGED <<wvars, svars, pvars, gvars, avars, mvars, uvars, lvars>>)
    \/ (SnapLockNormal /\ UNCHANGED <<wvars, svars, pvars, gvars, avars, mvars, uvars, lvars>>)

\* The queue under concurrent producers and a draining processor.
InitQueue ==
    QueueInit /\ WatchdogParked /\ ShutdownInit /\ ProcessorParked /\ GuardParked /\ AppInit
    /\ MainRunning /\ SnapshotInit /\ UrlsParked /\ LanesInit

SpecQueue == InitQueue /\ [][QueueNext]_vars

\* A thread that holds a lane lock keeps running: it is not descheduled for
\* ever between two statements of drain_ordered or snapshot.
LockHolderStep ==
    \/ (DrainLockNormal /\ UNCHANGED <<wvars, svars, pvars, gvars, avars, mvars, nvars, uvars, lvars>>)
    \/ (DrainTake /\ UNCHANGED <<wvars, svars, pvars, gvars, avars, mvars, nvars, uvars, lvars>>)
    \/ (SnapLockNormal /\ UNCHANGED <<wvars, svars, pvars, gvars, avars, mvars, uvars, lvars>>)

FairSpecQueue == SpecQueue /\ WF_vars(LockHolderStep)

\* The same queue, with the lane of every pushed item on record.
QueueLanesNext ==
    \/ \E p \in Producers : PushHighLogged(p) /\ UNCHANGED <<wvars, svars, pvars, gvars, avars, mvars, nvars, uvars>>
    \/ \E p \in Producers : PushNormalLogged(p) /\ UNCHANGED <<wvars, svars, pvars, gvars, avars, mvars, nvars, uvars>>
    \/ (DrainLockHigh /\ UNCHANGED <<wvars, svars, pvars, gvars, avars, mvars, nvars, uvars>> /\ UNCHANGED lvars)
    \/ (DrainLockNormal /\ UNCHANGED <<wvars, svars, pvars, gvars, avars, mvars, nvars, uvars>> /\ UNCHANGED lvars)
    \/ (DrainTake /\ UNCHANGED <<wvars, svars, pvars, gvars, avars, mvars, nvars, uvars>> /\ UNCHANGED lvars)

SpecQueueLanes == InitQueue /\ [][QueueLanesNext]_vars

WatchdogNext ==
    \/ (Tick /\ UNCHANGED <<qvars, svars, pvars, gvars, avars, mvars, nvars, uvars, lvars>>)
    \/ \E r \in Reporters : FailureArrives(r) /\ UNCHANGED <<qvars, svars, pvars, gvars, avars, mvars, nvars, uvars, lvars>>
    \/ \E r \in Reporters : LockState(r) /\ UNCHANGED <<qvars, svars, pvars, gvars, avars, mvars, nvars, uvars, lvars>>
    \/ \E r \in Reporters : CountAndDecide(r) /\ UNCHANGED <<qvars, svars, pvars, gvars, avars, mvars, nvars, uvars, lvars>>
    \/ \E r \in Reporters, sent_ok \in BOOLEAN : NotifyAdmin(r, sent_ok) /\ UNCHANGED <<qvars, svars, pvars, gvars, avars, mvars, nvars, uvars, lvars>>
    \/ \E r \in Reporters : InvokeRestart(r) /\ UNCHANGED <<qvars, svars, pvars, gvars, avars, mvars, nvars, uvars, lvars>>

\* The watchdog under concurrent error reports and passing time.
InitWatchdog ==
    QueueInit /\ WatchdogInit /\ ShutdownInit /\ ProcessorParked /\ GuardParked /\ AppInit
    /\ MainRunning /\ SnapshotInit /\ UrlsParked /\ LanesInit

SpecWatchdog == InitWatchdog /\ [][WatchdogNext]_vars

\* The watchdog as the listener's error handler: errors of every kind arrive.
ListenerErrorsNext ==
    \/ (Tick /\ UNCHANGED <<qvars, svars, pvars, gvars, avars, mvars, nvars, uvars, lvars>>)
    \/ \E r \in Reporters, error \in RequestErrors : ProcessError(r, error) /\ UNCHANGED <<qvars, svars, pvars, gvars, avars, mvars, nvars, uvars, lvars>>
    \/ \E r \in Reporters : LogError(r) /\ UNCHANGED <<qvars, svars, pvars, gvars, avars, mvars, nvars, uvars, lvars>>
    \/ \E r \in Reporters : LockState(r) /\ UNCHANGED <<qvars, svars, pvars, gvars, avars, mvars, nvars, uvars, lvars>>
    \/ \E r \in Reporters : CountAndDecide(r) /\ UNCHANGED <<qvars, svars, pvars, gvars, avars, mvars, nvars, uvars, lvars>>
    \/ \E r \in Reporters, sent_ok \in BOOLEAN : NotifyAdmin(r, sent_ok) /\ UNCHANGED <<qvars, svars, pvars, gvars, avars, mvars, nvars, uvars, lvars>>
    \/ \E r \in Reporters : InvokeRestart(r) /\ UNCHANGED <<qvars, svars, pvars, gvars, avars, mvars, nvars, uvars, lvars>>

InitListenerErrors ==
    QueueInit /\ WatchdogInit /\ threshold = NReporters /\ ShutdownInit
    /\ ProcessorParked /\ GuardParked /\ AppInit /\ MainRunning /\ SnapshotInit /\ UrlsParked /\ LanesInit

SpecListenerErrors == InitListenerErrors /\ [][ListenerErrorsNext]_vars

\* The shutdown coordinator with its listeners and its callers.
ShutdownNext ==
    \/ \E l \in Listeners \ {0} : Subscribe(l) /\ UNCHANGED <<qvars, wvars, pvars, gvars, avars, mvars, nvars, uvars, lvars>>
    \/ \E l \in Listeners : DropListener(l) /\ UNCHANGED <<qvars, wvars, pvars, gvars, avars, mvars, nvars, uvars, lvars>>
    \/ (Trigger /\ UNCHANGED <<qvars, wvars, pvars, gvars, avars, mvars, nvars, uvars, lvars>>)
    \/ \E l \in Listeners : NotifiedCall(l) /\ UNCHANGED <<qvars, wvars, pvars, gvars, avars, mvars, nvars, uvars, lvars>>
    \/ \E l \in Listeners : NotifiedWake(l) /\ UNCHANGED <<qvars, wvars, pvars, gvars, avars, mvars, nvars, uvars, lvars>>

InitShutdown ==
    QueueInit /\ WatchdogParked /\ ShutdownInit /\ ProcessorParked /\ GuardParked /\ AppInit
    /\ MainRunning /\ SnapshotInit /\ UrlsParked /\ LanesInit

SpecShutdown == InitShutdown /\ [][ShutdownNext]_vars

\* The processor task with producers pushing Jobs and a shutdown trigger.
ProcessorNext ==
    \/ \E j \in Jobs, lane \in {"high", "normal"} :
          SubmitJob(j, lane) /\ UNCHANGED <<wvars, gvars, avars, mvars, nvars, uvars, lvars>>
    \/ (ProcLoopTop /\ UNCHANGED <<wvars, gvars, avars, mvars, nvars, uvars, lvars>>)
    \/ (ppc = "drain" /\ DrainLockNormal /\ UNCHANGED <<wvars, svars, pvars, gvars, avars, mvars, nvars, uvars, lvars>>)
    \/ (ppc = "drain" /\ DrainTake /\ UNCHANGED <<wvars, svars, pvars, gvars, avars, mvars, nvars, uvars, lvars>>)
    \/ (ProcIdleWait /\ UNCHANGED <<wvars, gvars, avars, mvars, nvars, uvars, lvars>>)
    \/ (ProcSleepElapsed /\ UNCHANGED <<wvars, gvars, avars, mvars, nvars, uvars, lvars>>)
    \/ (ProcSleepShutdown /\ UNCHANGED <<wvars, gvars, avars, mvars, nvars, uvars, lvars>>)
    \/ (ProcExit /\ UNCHANGED <<wvars, gvars, avars, mvars, nvars, uvars, lvars>>)
    \/ (ProcHandleBatch /\ UNCHANGED <<wvars, gvars, avars, mvars, nvars, uvars, lvars>>)
    \/ (ProcNextJob /\ UNCHANGED <<wvars, gvars, avars, mvars, nvars, uvars, lvars>>)
    \/ \E first \in {"fetch", "shutdown"} : ProcFetchStart(first) /\ UNCHANGED <<wvars, gvars, avars, mvars, nvars, uvars, lvars>>
    \/ \E res \in {"page", "none", "err"} : ProcFetchReturns(res) /\ UNCHANGED <<wvars, gvars, avars, mvars, nvars, uvars, lvars>>
    \/ (ProcFetchShutdown /\ UNCHANGED <<wvars, gvars, avars, mvars, nvars, uvars, lvars>>)
    \/ (ProcJobDone /\ UNCHANGED <<wvars, gvars, avars, mvars, nvars, uvars, lvars>>)
    \/ \E first \in {"classify", "shutdown"} :
          ProcClassifyStart(first) /\ UNCHANGED <<wvars, gvars, avars, mvars, nvars, uvars, lvars>>
    \/ \E res \in {None} \cup {Some(m) : m \in ClassificationMaps} :
          ProcClassifyReturns(res) /\ UNCHANGED <<wvars, gvars, avars, mvars, nvars, uvars, lvars>>
    \/ (ProcClassifyShutdown /\ UNCHANGED <<wvars, gvars, avars, mvars, nvars, uvars, lvars>>)
    \/ \E k \in DecisionKeys : ProcApplyNext(k) /\ UNCHANGED <<wvars, gvars, avars, mvars, nvars, uvars, lvars>>
    \/ (ProcApplyDone /\ UNCHANGED <<wvars, gvars, avars, mvars, nvars, uvars, lvars>>)
    \/ \E ok \in BOOLEAN : ProcDeleteReturns(ok) /\ UNCHANGED <<wvars, gvars, avars, mvars, nvars, uvars, lvars>>
    \/ (ProcNotifyReturns /\ UNCHANGED <<wvars, gvars, avars, mvars, nvars, uvars, lvars>>)
    \/ (ProcLoopBack /\ UNCHANGED <<wvars, gvars, avars, mvars, nvars, uvars, lvars>>)
    \/ (ProcTrigger /\ UNCHANGED <<wvars, gvars, avars, mvars, nvars, uvars, lvars>>)

InitProcessor ==
    QueueInit /\ WatchdogParked /\ ShutdownRunning /\ ProcessorInit /\ GuardParked /\ AppInit
    /\ MainRunning /\ SnapshotInit /\ UrlsParked /\ LanesInit

SpecProcessor == InitProcessor /\ [][ProcessorNext]_vars

\* The same processor, with the delete calls of the whole run on record.
ProcessorRunNext ==
    \/ \E j \in Jobs, lane \in {"high", "normal"} :
          SubmitJob(j, lane) /\ UNCHANGED <<wvars, gvars, avars, mvars, nvars, uvars>> /\ UNCHANGED lvars
    \/ (ProcLoopTop /\ UNCHANGED <<wvars, gvars, avars, mvars, nvars, uvars>> /\ UNCHANGED lvars)
    \/ (ppc = "drain" /\ DrainLockNormal /\ UNCHANGED <<wvars, svars, pvars, gvars, avars, mvars, nvars, uvars>> /\ UNCHANGED lvars)
    \/ (ppc = "drain" /\ DrainTake /\ UNCHANGED <<wvars, svars, pvars, gvars, avars, mvars, nvars, uvars>> /\ UNCHANGED lvars)
    \/ (ProcIdleWait /\ UNCHANGED <<wvars, gvars, avars, mvars, nvars, uvars>> /\ UNCHANGED lvars)
    \/ (ProcSleepElapsed /\ UNCHANGED <<wvars, gvars, avars, mvars, nvars, uvars>> /\ UNCHANGED lvars)
    \/ (ProcSleepShutdown /\ UNCHANGED <<wvars, gvars, avars, mvars, nvars, uvars>> /\ UNCHANGED lvars)
    \/ (ProcExit /\ UNCHANGED <<wvars, gvars, avars, mvars, nvars, uvars>> /\ UNCHANGED lvars)
    \/ (ProcHandleBatch /\ UNCHANGED <<wvars, gvars, avars, mvars, nvars, uvars>> /\ UNCHANGED lvars)
    \/ (ProcNextJob /\ UNCHANGED <<wvars, gvars, avars, mvars, nvars, uvars>> /\ UNCHANGED lvars)
    \/ \E first \in {"fetch", "shutdown"} : ProcFetchStart(first) /\ UNCHANGED <<wvars, gvars, avars, mvars, nvars, uvars>> /\ UNCHANGED lvars
    \/ \E res \in {"page", "none", "err"} : ProcFetchReturns(res) /\ UNCHANGED <<wvars, gvars, avars, mvars, nvars, uvars>> /\ UNCHANGED lvars
    \/ (ProcFetchShutdown /\ UNCHANGED <<wvars, gvars, avars, mvars, nvars, uvars>> /\ UNCHANGED lvars)
    \/ (ProcJobDone /\ UNCHANGED <<wvars, gvars, avars, mvars, nvars, uvars>> /\ UNCHANGED lvars)
    \/ \E first \in {"classify", "shutdown"} :
          ProcClassifyStart(first) /\ UNCHANGED <<wvars, gvars, avars, mvars, nvars, uvars>> /\ UNCHANGED lvars
    \/ \E res \in {None} \cup {Some(m) : m \in ClassificationMaps} :
          ProcClassifyReturns(res) /\ UNCHANGED <<wvars, gvars, avars, mvars, nvars, uvars>> /\ UNCHANGED lvars
    \/ (ProcClassifyShutdown /\ UNCHANGED <<wvars, gvars, avars, mvars, nvars, uvars>> /\ UNCHANGED lvars)
    \/ \E k \in DecisionKeys : ProcApplyNext(k) /\ UNCHANGED <<wvars, gvars, avars, mvars, nvars, uvars>> /\ UNCHANGED lvars
    \/ (ProcApplyDone /\ UNCHANGED <<wvars, gvars, avars, mvars, nvars, uvars>> /\ UNCHANGED lvars)
    \/ \E ok \in BOOLEAN : ProcDeleteLogged(ok) /\ UNCHANGED <<wvars, gvars, avars, mvars, nvars, uvars>>
    \/ (ProcNotifyReturns /\ UNCHANGED <<wvars, gvars, avars, mvars, nvars, uvars>> /\ UNCHANGED lvars)
    \/ (ProcLoopBack /\ UNCHANGED <<wvars, gvars, avars, mvars, nvars, uvars>> /\ UNCHANGED lvars)
    \/ (ProcTrigger /\ UNCHANGED <<wvars, gvars, avars, mvars, nvars, uvars>> /\ UNCHANGED lvars)

SpecProcessorRun == InitProcessor /\ [][ProcessorRunNext]_vars

\* The steps the processor task takes by itself once polled, with the returns
\* of the delete and notification calls it awaits without a select!; not the
\* arrival of messages, the poll timer, or the results of fetch and classify.
ProcStep ==
    /\ \/ ProcLoopTop
       \/ (ppc = "drain" /\ DrainLockNormal /\ UNCHANGED <<svars, pvars>>)
       \/ (ppc = "drain" /\ DrainTake /\ UNCHANGED <<svars, pvars>>)
       \/ ProcIdleWait
       \/ ProcSleepShutdown
       \/ ProcExit
       \/ ProcHandleBatch
       \/ ProcNextJob
       \/ \E first \in {"fetch", "shutdown"} : ProcFetchStart(first)
       \/ ProcFetchShutdown
       \/ ProcJobDone
       \/ \E first \in {"classify", "shutdown"} : ProcClassifyStart(first)
       \/ ProcClassifyShutdown
       \/ \E k \in DecisionKeys : ProcApplyNext(k)
       \/ ProcApplyDone
       \/ \E ok \in BOOLEAN : ProcDeleteReturns(ok)
       \/ ProcNotifyReturns
       \/ ProcLoopBack
    /\ UNCHANGED <<wvars, gvars, avars, mvars, nvars, uvars, lvars>>

FairSpecProcessor == SpecProcessor /\ WF_vars(ProcStep)

\* Processes started on one data directory, each acquiring the instance lock
\* and later dropping its guard.
GuardNext ==
    \/ \E p \in Procs : Spawn(p) /\ UNCHANGED <<qvars, wvars, svars, pvars, avars, mvars, nvars, uvars, lvars>>
    \/ \E p \in Procs : StartAcquire(p) /\ UNCHANGED <<qvars, wvars, svars, pvars, avars, mvars, nvars, uvars, lvars>>
    \/ \E p \in Procs : ScanNext(p) /\ UNCHANGED <<qvars, wvars, svars, pvars, avars, mvars, nvars, uvars, lvars>>
    \/ \E p \in Procs : TpCheck(p) /\ UNCHANGED <<qvars, wvars, svars, pvars, avars, mvars, nvars, uvars, lvars>>
    \/ \E p \in Procs, dies \in BOOLEAN :
          TpTerm(p, dies) /\ UNCHANGED <<qvars, wvars, svars, pvars, avars, mvars, nvars, uvars, lvars>>
    \/ \E p \in Procs : TpKill(p) /\ UNCHANGED <<qvars, wvars, svars, pvars, avars, mvars, nvars, uvars, lvars>>
    \/ \E p \in Procs, err \in BOOLEAN :
          OpenLockFile(p, err) /\ UNCHANGED <<qvars, wvars, svars, pvars, avars, mvars, nvars, uvars, lvars>>
    \/ \E p \in Procs, err \in BOOLEAN :
          TryLock(p, err) /\ UNCHANGED <<qvars, wvars, svars, pvars, avars, mvars, nvars, uvars, lvars>>
    \/ \E p \in Procs, err \in BOOLEAN :
          TruncateInfo(p, err) /\ UNCHANGED <<qvars, wvars, svars, pvars, avars, mvars, nvars, uvars, lvars>>
    \/ \E p \in Procs, err \in BOOLEAN :
          WriteInfo(p, err) /\ UNCHANGED <<qvars, wvars, svars, pvars, avars, mvars, nvars, uvars, lvars>>
    \/ \E p \in Procs, err \in BOOLEAN :
          ReadLockInfo(p, err) /\ UNCHANGED <<qvars, wvars, svars, pvars, avars, mvars, nvars, uvars, lvars>>
    \/ \E p \in Procs : CheckStale(p) /\ UNCHANGED <<qvars, wvars, svars, pvars, avars, mvars, nvars, uvars, lvars>>
    \/ \E p \in Procs : RemoveStale(p) /\ UNCHANGED <<qvars, wvars, svars, pvars, avars, mvars, nvars, uvars, lvars>>
    \/ \E p \in Procs, timedOut \in BOOLEAN :
          CheckElapsed(p, timedOut) /\ UNCHANGED <<qvars, wvars, svars, pvars, avars, mvars, nvars, uvars, lvars>>
    \/ \E p \in Procs : DropUnlock(p) /\ UNCHANGED <<qvars, wvars, svars, pvars, avars, mvars, nvars, uvars, lvars>>
    \/ \E p \in Procs : DropRemove(p) /\ UNCHANGED <<qvars, wvars, svars, pvars, avars, mvars, nvars, uvars, lvars>>

InitGuard ==
    QueueInit /\ WatchdogParked /\ ShutdownInit /\ ProcessorParked /\ GuardInit /\ AppInit
    /\ MainRunning /\ SnapshotInit /\ UrlsParked /\ LanesInit

SpecGuard == InitGuard /\ [][GuardNext]_vars

\* The steps of p's call of acquire: a thread that has called acquire runs
\* until acquire returns, each of its calls and sleeps coming back in time.
AcquireStep(p) ==
    /\ \/ StartAcquire(p)
       \/ ScanNext(p)
       \/ TpCheck(p)
       \/ \E dies \in BOOLEAN : TpTerm(p, dies)
       \/ TpKill(p)
       \/ \E err \in BOOLEAN : OpenLockFile(p, err)
       \/ \E err \in BOOLEAN : TryLock(p, err)
       \/ \E err \in BOOLEAN : TruncateInfo(p, err)
       \/ \E err \in BOOLEAN : WriteInfo(p, err)
       \/ \E err \in BOOLEAN : ReadLockInfo(p, err)
       \/ CheckStale(p)
       \/ RemoveStale(p)
       \/ \E timedOut \in BOOLEAN : CheckElapsed(p, timedOut)
    /\ UNCHANGED <<qvars, wvars, svars, pvars, avars, mvars, nvars, uvars, lvars>>

FairSpecGuard == SpecGuard /\ \A p \in Procs : WF_vars(AcquireStep(p))

\* The same processes, one of which calls acquire a second time while its
\* guard is held.
ReentrantNext ==
    \/ (AcquireAgain /\ UNCHANGED <<qvars, wvars, svars, pvars, avars, mvars, nvars, uvars, lvars>>)
    \/ \E p \in Procs : Spawn(p) /\ UNCHANGED <<qvars, wvars, svars, pvars, avars, mvars, nvars, uvars, lvars>>
    \/ \E p \in Callers : StartAcquire(p) /\ UNCHANGED <<qvars, wvars, svars, pvars, avars, mvars, nvars, uvars, lvars>>
    \/ \E p \in Callers : ScanNext(p) /\ UNCHANGED <<qvars, wvars, svars, pvars, avars, mvars, nvars, uvars, lvars>>
    \/ \E p \in Callers : TpCheck(p) /\ UNCHANGED <<qvars, wvars, svars, pvars, avars, mvars, nvars, uvars, lvars>>
    \/ \E p \in Callers, dies \in BOOLEAN :
          TpTerm(p, dies) /\ UNCHANGED <<qvars, wvars, svars, pvars, avars, mvars, nvars, uvars, lvars>>
    \/ \E p \in Callers : TpKill(p) /\ UNCHANGED <<qvars, wvars, svars, pvars, avars, mvars, nvars, uvars, lvars>>
    \/ \E p \in Callers, err \in BOOLEAN :
          OpenLockFile(p, err) /\ UNCHANGED <<qvars, wvars, svars, pvars, avars, mvars, nvars, uvars, lvars>>
    \/ \E p \in Callers, err \in BOOLEAN :
          TryLock(p, err) /\ UNCHANGED <<qvars, wvars, svars, pvars, avars, mvars, nvars, uvars, lvars>>
    \/ \E p \in Callers, err \in BOOLEAN :
          TruncateInfo(p, err) /\ UNCHANGED <<qvars, wvars, svars, pvars, avars, mvars, nvars, uvars, lvars>>
    \/ \E p \in Callers, err \in BOOLEAN :
          WriteInfo(p, err) /\ UNCHANGED <<qvars, wvars, svars, pvars, avars, mvars, nvars, uvars, lvars>>
    \/ \E p \in Callers, err \in BOOLEAN :
          ReadLockInfo(p, err) /\ UNCHANGED <<qvars, wvars, svars, pvars, avars, mvars, nvars, uvars, lvars>>
    \/ \E p \in Callers : CheckStale(p) /\ UNCHANGED <<qvars, wvars, svars, pvars, avars, mvars, nvars, uvars, lvars>>
    \/ \E p \in Callers : RemoveStale(p) /\ UNCHANGED <<qvars, wvars, svars, pvars, avars, mvars, nvars, uvars, lvars>>
    \/ \E p \in Callers, timedOut \in BOOLEAN :
          CheckElapsed(p, timedOut) /\ UNCHANGED <<qvars, wvars, svars, pvars, avars, mvars, nvars, uvars, lvars>>
    \/ \E p \in Callers : DropUnlock(p) /\ UNCHANGED <<qvars, wvars, svars, pvars, avars, mvars, nvars, uvars, lvars>>
    \/ \E p \in Callers : DropRemove(p) /\ UNCHANGED <<qvars, wvars, svars, pvars, avars, mvars, nvars, uvars, lvars>>

SpecGuardReentrant == InitGuard /\ [][ReentrantNext]_vars

\* The same calls where one user runs every process, so that every signal
\* acquire sends is delivered.
InitGuardSignals == InitGuard /\ canKill

SpecGuardSignals == InitGuardSignals /\ [][ReentrantNext]_vars

\* SpamGuardApp::run with its subsystems and the signal handlers.
AppNext ==
    \/ (SignalTrigger /\ UNCHANGED <<qvars, wvars, pvars, gvars, mvars, nvars, uvars, lvars>>)
    \/ (TelegramStops /\ UNCHANGED <<qvars, wvars, pvars, gvars, mvars, nvars, uvars, lvars>>)
    \/ (ProcessorStops /\ UNCHANGED <<qvars, wvars, pvars, gvars, mvars, nvars, uvars, lvars>>)
    \/ (AppTick /\ UNCHANGED <<qvars, wvars, pvars, gvars, mvars, nvars, uvars, lvars>>)
    \/ (RunNotifyStarted /\ UNCHANGED <<qvars, wvars, pvars, gvars, mvars, nvars, uvars, lvars>>)
    \/ (RunSubscribe /\ UNCHANGED <<qvars, wvars, pvars, gvars, mvars, nvars, uvars, lvars>>)
    \/ (RunStartTelegram /\ UNCHANGED <<qvars, wvars, pvars, gvars, mvars, nvars, uvars, lvars>>)
    \/ (RunSelectPoll /\ UNCHANGED <<qvars, wvars, pvars, gvars, mvars, nvars, uvars, lvars>>)
    \/ (RunSelectWake /\ UNCHANGED <<qvars, wvars, pvars, gvars, mvars, nvars, uvars, lvars>>)
    \/ (RunSelectNotified /\ UNCHANGED <<qvars, wvars, pvars, gvars, mvars, nvars, uvars, lvars>>)
    \/ (RunSelectTelegram /\ UNCHANGED <<qvars, wvars, pvars, gvars, mvars, nvars, uvars, lvars>>)
    \/ (RunTrigger /\ UNCHANGED <<qvars, wvars, pvars, gvars, mvars, nvars, uvars, lvars>>)
    \/ (RunTelegramStopped /\ UNCHANGED <<qvars, wvars, pvars, gvars, mvars, nvars, uvars, lvars>>)
    \/ (RunTelegramTimeout /\ UNCHANGED <<qvars, wvars, pvars, gvars, mvars, nvars, uvars, lvars>>)
    \/ (RunSchedulerTimeout /\ UNCHANGED <<qvars, wvars, pvars, gvars, mvars, nvars, uvars, lvars>>)
    \/ (RunSchedulerReturns /\ UNCHANGED <<qvars, wvars, pvars, gvars, mvars, nvars, uvars, lvars>>)
    \/ (RunWhitelistTimeout /\ UNCHANGED <<qvars, wvars, pvars, gvars, mvars, nvars, uvars, lvars>>)
    \/ (RunWhitelistReturns /\ UNCHANGED <<qvars, wvars, pvars, gvars, mvars, nvars, uvars, lvars>>)
    \/ (RunProcessorJoined /\ UNCHANGED <<qvars, wvars, pvars, gvars, mvars, nvars, uvars, lvars>>)
    \/ (RunProcessorTimeout /\ UNCHANGED <<qvars, wvars, pvars, gvars, mvars, nvars, uvars, lvars>>)
    \/ (RunNotifyStopped /\ UNCHANGED <<qvars, wvars, pvars, gvars, mvars, nvars, uvars, lvars>>)

InitApp ==
    QueueInit /\ WatchdogParked /\ ShutdownRunning /\ ProcessorParked /\ GuardParked /\ AppInit
    /\ MainRunning /\ SnapshotInit /\ UrlsParked /\ LanesInit

SpecApp == InitApp /\ [][AppNext]_vars

\* What run does of itself: its own statements, and the passing of time
\* under its sleeps and timeouts. That a subsystem ever stops, that
\* scheduler.shutdown() or whitelist.close() ever returns, is not assumed.
RunStep ==
    /\ \/ AppTick
       \/ RunNotifyStarted
       \/ RunSubscribe
       \/ RunStartTelegram
       \/ RunSelectPoll
       \/ RunSelectWake
       \/ RunSelectNotified
       \/ RunSelectTelegram
       \/ RunTrigger
       \/ RunTelegramStopped
       \/ RunTelegramTimeout
       \/ RunSchedulerTimeout
       \/ RunWhitelistTimeout
       \/ RunProcessorJoined
       \/ RunProcessorTimeout
       \/ RunNotifyStopped
    /\ UNCHANGED <<qvars, wvars, pvars, gvars, mvars, nvars, uvars, lvars>>

FairSpecApp == SpecApp /\ WF_vars(RunStep)

\* A process from the start of main to the return of run.
MainNext ==
    \/ \E ok \in BOOLEAN : MainLoadConfig(ok) /\ UNCHANGED <<qvars, wvars, pvars, gvars, nvars, uvars, lvars>>
    \/ \E ok \in BOOLEAN : MainEnsureDirectories(ok) /\ UNCHANGED <<qvars, wvars, pvars, gvars, nvars, uvars, lvars>>
    \/ \E ok \in BOOLEAN : MainInitTracing(ok) /\ UNCHANGED <<qvars, wvars, pvars, gvars, nvars, uvars, lvars>>
    \/ (MainAutoUpdate /\ UNCHANGED <<qvars, wvars, pvars, gvars, nvars, uvars, lvars>>)
    \/ (MainNewShutdown /\ UNCHANGED <<qvars, wvars, pvars, gvars, nvars, uvars, lvars>>)
    \/ (MainInstallSignalHandlers /\ UNCHANGED <<qvars, wvars, pvars, gvars, nvars, uvars, lvars>>)
    \/ (StartupSignal /\ UNCHANGED <<qvars, wvars, pvars, gvars, nvars, uvars, lvars>>)
    \/ \E ok \in BOOLEAN : InitPool(ok) /\ UNCHANGED <<qvars, wvars, pvars, gvars, nvars, uvars, lvars>>
    \/ \E ok \in BOOLEAN : InitClients(ok) /\ UNCHANGED <<qvars, wvars, pvars, gvars, nvars, uvars, lvars>>
    \/ (InitSpawnProcessor /\ UNCHANGED <<qvars, wvars, pvars, gvars, nvars, uvars, lvars>>)
    \/ \E ok \in BOOLEAN : InitScheduler(ok) /\ UNCHANGED <<qvars, wvars, pvars, gvars, nvars, uvars, lvars>>
    \/ (StartupProcessorStops /\ UNCHANGED <<qvars, wvars, pvars, gvars, nvars, uvars, lvars>>)
    \/ (MainRunning /\ AppNext)

InitMain ==
    QueueInit /\ WatchdogParked /\ ShutdownInit /\ ProcessorParked /\ GuardParked /\ AppUnbuilt
    /\ MainInit /\ SnapshotInit /\ UrlsParked /\ LanesInit

SpecMain == InitMain /\ [][MainNext]_vars

\* extract_urls applied to every text of the bounded alphabet.
UrlsNext ==
    ExtractUrlsCall /\ UNCHANGED <<qvars, wvars, svars, pvars, gvars, avars, mvars, nvars, lvars>>

InitUrls ==
    QueueInit /\ WatchdogParked /\ ShutdownInit /\ ProcessorParked /\ GuardParked /\ AppInit
    /\ MainRunning /\ SnapshotInit /\ UrlsInit /\ LanesInit

SpecUrls == InitUrls /\ [][UrlsNext]_vars

\* ------------------------------------------------------------------ C1
\* C1: under any interleaving of acquire (with its stale-lock cleanup) and
\* Drop by several processes on one data directory, at most one live process
\* at a time holds a guard returned by acquire.
C1_AtMostOneGuardHolder ==
    Cardinality({PidOf(c) : c \in {d \in Callers : HoldsGuard(d)}}) <= 1

\* ------------------------------------------------------------------ C2
\* C2: a drain_ordered that follows any sequence of pushes returns all
\* high-lane items in push order followed by all normal-lane items in push
\* order, and both lanes are empty when it returns.
C2_DrainReturnsHighThenNormal ==
    [][ (drainPc = "lockedBoth" /\ drainPc' = "idle") =>
            /\ drained' = hiPushed \o noPushed
            /\ high' = <<>>
            /\ normal' = <<>> ]_vars

\* A drain has returned items of both lanes, pushed by both producers.
C2_Witness ==
    /\ drainPc = "idle"
    /\ drains >= 2
    /\ Len(drained) >= 3
    /\ drained[1][1] = 2
    /\ drained[2][1] = 1
    /\ high = <<>> /\ normal = <<>>

\* ------------------------------------------------------------------ C3
PushedItems == {<<p, i>> : p \in Producers, i \in 1..ItemsPerProducer} \cap
               UNION {{<<p, i>> : i \in 1..sent[p]} : p \in Producers}

\* C3: with concurrent producers and any number of drains, the drain results
\* together with what is still queued are exactly the pushed items, each once.
C3_NoLossNoDuplication ==
    LET all == drainedAll \o high \o normal IN
    /\ NoDup(all)
    /\ Range(all) = PushedItems
    /\ Len(all) = Cardinality(PushedItems)

\* Every producer has pushed all its items and they came out over several
\* non-empty drains.
C3_Witness ==
    /\ \A p \in Producers : sent[p] = ItemsPerProducer
    /\ Len(drainedAll) = MaxPushes
    /\ drains >= 3
    /\ drainPc = "idle"

\* ------------------------------------------------------------------ C4
\* The report r leaves the critical section in this step.
Decides(r) == wpc[r] = "locked" /\ wpc'[r] # "locked"

\* The call of handle_network_failure for report r returns in this step.
Returns(r) == wpc[r] # "idle" /\ wpc'[r] = "idle"

\* The failure of report r falls in the window opened by the first failure of
\* the current accumulation, and the count it brings the accumulation to.
InRun(r) ==
    wdFirst # None /\ Since(wNow[r], Unwrap(wdFirst)) <= NetworkErrorWindow
RunLength(r) == IF InRun(r) THEN wdCount + 1 ELSE 1

\* No restart was triggered within the cooldown before the failure of report r.
Cooled(r) ==
    wdLast = None \/ Since(wNow[r], Unwrap(wdLast)) >= RestartCooldown

AllIdle == \A r \in Reporters : wpc[r] = "idle"

\* C4: a failure that brings the failures of the current window to the
\* threshold with no restart within the cooldown makes its report invoke the
\* restart callback exactly once before it returns; a failure that does not
\* invokes it never, and nothing else invokes it.
C4_TripInvokesCallbackOnce ==
    [][ /\ \A r \in Reporters :
             /\ Decides(r) =>
                   /\ (wDecision'[r] # None) <=>
                          (RunLength(r) >= threshold /\ Cooled(r))
                   /\ wpc'[r] = (IF wDecision'[r] # None THEN "notify" ELSE "idle")
             /\ Returns(r) =>
                   restarts' = restarts + (IF wDecision[r] # None THEN 1 ELSE 0)
        /\ restarts' # restarts =>
             \E r \in Reporters : Returns(r) /\ wDecision[r] # None ]_vars

\* Threshold 3: the third failure of a window tripped, once.
C4_Witness ==
    /\ threshold = MaxThreshold
    /\ AllIdle
    /\ restarts = 1
    /\ notices = 1
    /\ wdCount = 0
    /\ wdLast # None
    /\ clock = Unwrap(wdLast)

\* ------------------------------------------------------------------ C5
\* C5 as stated: a failure arriving more than the window after the first
\* failure of the accumulation leaves count 1 and that failure's timestamp.
C5_AsStated ==
    [][ \A r \in Reporters :
          (Decides(r) /\ wdFirst # None /\ ~InRun(r)) =>
              (wdCount' = 1 /\ wdFirst' = Some(wNow[r])) ]_vars

\* C5, amended: such a failure starts a new window (count 1, first-failure
\* timestamp its own), unless the threshold is 1 and the failure itself
\* triggers the restart, which resets the state (count 0, no timestamp).
C5_LateFailureStartsNewWindow ==
    [][ \A r \in Reporters :
          (Decides(r) /\ wdFirst # None /\ ~InRun(r)) =>
              IF wDecision'[r] # None
              THEN threshold = 1 /\ wdCount' = 0 /\ wdFirst' = None
              ELSE wdCount' = 1 /\ wdFirst' = Some(wNow[r]) ]_vars

\* Failures were handled without a trip and the latest, arriving after the
\* window of the first, is alone in its window.
C5_Witness ==
    /\ threshold = MaxThreshold
    /\ AllIdle
    /\ restarts = 0
    /\ wdLast = None
    /\ wdCount = 1
    /\ wdFirst # None
    /\ Unwrap(wdFirst) > NetworkErrorWindow

\* ------------------------------------------------------------------ C6
\* C6 as stated: any two invocations of the restart callback are at least
\* the cooldown apart.
C6_AsStated ==
    [][ (restarts' # restarts /\ lastAt # None) =>
            clock' - Unwrap(lastAt) >= RestartCooldown ]_vars

\* C6, amended: the failures that trigger two restarts are at least the
\* cooldown apart (measured on the `now` of their reports, not on the moments
\* the callback runs); a failure that reaches the threshold within the
\* cooldown sends no notification and invokes no callback.
C6_CooldownBetweenTrips ==
    [][ \A r \in Reporters :
          /\ (Decides(r) /\ wDecision'[r] # None /\ wdLast # None) =>
                 wNow[r] - Unwrap(wdLast) >= RestartCooldown
          /\ (Decides(r) /\ RunLength(r) >= threshold /\ ~Cooled(r)) =>
                 /\ wpc'[r] = "idle"
                 /\ wDecision'[r] = None
                 /\ wdLast' = wdLast
                 /\ notices' = notices
                 /\ restarts' = restarts ]_vars

\* A trip was suppressed: one restart so far, and the count stands at the
\* threshold with every report returned.
C6_Witness ==
    /\ AllIdle
    /\ restarts = 1
    /\ notices = 1
    /\ wdCount >= threshold

\* ------------------------------------------------------------------ C7
\* C7: after a restart was triggered and the cooldown has elapsed, a failure
\* that brings the current window to the threshold trips the watchdog again,
\* and its report invokes the restart callback.
C7_WatchdogRearms ==
    [][ \A r \in Reporters :
          /\ (Decides(r) /\ wdLast # None /\ Cooled(r)
                 /\ RunLength(r) >= threshold) =>
                 /\ wpc'[r] = "notify"
                 /\ wdLast' = Some(wNow[r])
          /\ (wpc[r] = "notify" /\ wpc'[r] # "notify") => wpc'[r] = "callback"
          /\ (wpc[r] = "callback" /\ wpc'[r] # "callback") =>
                 restarts' = restarts + 1 ]_vars

\* The callback was invoked twice, for two separate trips of a watchdog
\* whose threshold is above 1.
C7_Witness ==
    /\ threshold > 1
    /\ restarts = 2
    /\ AllIdle

\* ------------------------------------------------------------------ C8
\* C8: once trigger has been called, every listener in existence, whether it
\* subscribed before or after the call, reads is_triggered as true, and a
\* notified() it is awaiting is ready to complete.
C8_EveryListenerObservesTrigger ==
    trigCalls > 0 =>
        \A l \in Listeners :
            lst[l] = "live" =>
                /\ IsTriggered(l)
                /\ lpc[l] = "waiting" => sdVersion # lseen[l]

\* ------------------------------------------------------------------ C9
\* C9: once shutdown was triggered while handle_batch awaited a content
\* fetch, no classify call is made for that batch and no message of that batch
\* is deleted.
C9_FetchCutAbandonsBatch ==
    fetchCut => (classifyCalls = 0 /\ deletes = <<>>)

\* ------------------------------------------------------------------ C10
\* Number of delete_message calls, and of admin send_message calls, made for
\* the Job in the batch handle_batch is working on.
DeletesOf(j) ==
    Cardinality({i \in 1..Len(deletes) :
                    deletes[i][1] = j.chat /\ deletes[i][2] = j.mid})
DeletedOk(j) == \E i \in 1..Len(deletes) : deletes[i] = <<j.chat, j.mid, TRUE>>
NotesOf(j) ==
    Cardinality({i \in 1..Len(notes) : notes[i] = <<j.chat, j.mid>>})

\* The classification of the batch succeeded and every decision was applied.
Applied == classification # None /\ ppc = "returnedOk"

\* The classifier flagged the message id of Job j as spam.
Flagged(j) ==
    /\ Key(j) \in DOMAIN Unwrap(classification)
    /\ Unwrap(classification)[Key(j)]

\* C10: when a classified batch has been applied, delete was called once for
\* each Job whose message id is mapped to spam=true and never for any other
\* Job; with an admin group configured one notification was sent for each
\* successfully deleted message, and none otherwise.
C10_DeleteOncePerFlaggedJob ==
    Applied =>
        /\ \A j \in Range(batchJobs) :
              /\ DeletesOf(j) = (IF Flagged(j) THEN 1 ELSE 0)
              /\ NotesOf(j) = (IF adminGroup /\ DeletedOk(j) THEN 1 ELSE 0)
        /\ Len(deletes) = Cardinality({j \in Range(batchJobs) : Flagged(j)})
        /\ Len(notes) = Cardinality({j \in Range(batchJobs) :
                                        adminGroup /\ DeletedOk(j)})

\* ------------------------------------------------------------------ C11
\* handle_batch returns in this step.
BatchReturns ==
    /\ ppc \notin {"returnedOk", "returnedErr"}
    /\ ppc' \in {"returnedOk", "returnedErr"}

\* C11: a Job is in the queue or in exactly one drain result, never both and
\* never twice; the batch handed to handle_batch is the result of the drain
\* just made; and a batch that is abandoned or discarded (or applied) puts
\* nothing back into the queue.
C11_DrainedJobsNeverRedelivered ==
    /\ [](NoDup(drainedAll \o high \o normal))
    /\ [][ /\ (ppc = "drain" /\ ppc' = "job") =>
                 /\ batchJobs' = drained
                 /\ Len(drainedAll) >= Len(drained)
                 /\ SubSeq(drainedAll, Len(drainedAll) - Len(drained) + 1,
                           Len(drainedAll)) = drained
           /\ BatchReturns => UNCHANGED <<high, normal>> ]_vars

\* A second batch was discarded through an error after an earlier batch, and
\* the queue is empty: both Jobs were handed over once.
C11_Witness ==
    /\ ppc = "returnedErr"
    /\ drains = 2
    /\ Len(drainedAll) = 2
    /\ high = <<>> /\ normal = <<>>

\* ------------------------------------------------------------------ C12
\* The classify call of the batch fails in this step: the call in flight
\* returns an error, or the call fails as it starts for want of an api key.
ClassifyFails ==
    \/ /\ ppc = "classify"
       /\ ppc' # "classify"
       /\ classification' = None
       /\ lpc'[ProcListener] = "idle"
    \/ /\ ppc = "job"
       /\ batch = <<>>
       /\ ~apiKey
       /\ classifyCalls' = classifyCalls + 1

\* C12: when the classify call of a batch fails, handle_batch returns the
\* error with no delete and no admin notification made for the batch, and
\* run_loop goes back to the top of its loop, where it drains again unless
\* shutdown was triggered.
C12_ClassifierFailureDiscardsBatch ==
    [][ /\ ClassifyFails =>
              /\ ppc' = "returnedErr"
              /\ deletes' = <<>>
              /\ notes' = <<>>
        /\ (ppc = "returnedErr" /\ ppc' # ppc) =>
              /\ ppc' = "top"
              /\ UNCHANGED <<high, normal>>
        /\ (ppc = "top" /\ ppc' # ppc /\ ~IsTriggered(ProcListener)) =>
              ppc' = "drain" ]_vars

\* The classify call in flight failed for a batch, nothing was deleted, and a
\* Job pushed meanwhile waits in the queue for the next drain.
C12_Witness ==
    /\ apiKey
    /\ ppc = "returnedErr"
    /\ classifyCalls = 1
    /\ deletes = <<>>
    /\ notes = <<>>
    /\ Len(high \o normal) = 1

\* ------------------------------------------------------------------ C13
\* C13: when a classified batch has been applied, a delete was attempted for
\* every Job whose message id the classifier flagged, whichever deletes or
\* notifications failed and in whatever order the decisions were applied.
C13_EveryFlaggedJobAttempted ==
    Applied =>
        \A j \in Range(batchJobs) : Flagged(j) => DeletesOf(j) >= 1

\* ------------------------------------------------------------------ C14
\* The fetch in flight completes in this step (the select! takes its branch).
FetchCompletes ==
    /\ ppc = "fetch"
    /\ ppc' # "fetch"
    /\ lpc'[ProcListener] = "idle"

\* C14: however the fetch of a URL ends, with a page, without content or
\* with a failure, handle_batch goes on with the Job: its entry is kept and
\* the batch is not given up.
C14_FetchFailureIsNoContent ==
    [][ FetchCompletes =>
            /\ ppc' = "url"
            /\ entry' # None
            /\ cur' = cur
            /\ batch' = batch ]_vars

\* ------------------------------------------------------------------ C15
\* Message-id strings of the Jobs of the batch being handled.
BatchKeys == {Key(j) : j \in Range(batchJobs)}

\* C15: applying a decision whose key matches no Job of the batch changes
\* nothing but the iteration itself: no delete, no notification, the lookup
\* and the queue as before, and every remaining decision still to come.
C15_UnknownKeyIsIgnored ==
    [][ \A k \in DecisionKeys \ BatchKeys :
          (ppc = "apply" /\ k \in DOMAIN pending /\ k \notin DOMAIN pending') =>
              /\ pending' = MapRemove(pending, k)
              /\ ppc' = "apply"
              /\ UNCHANGED <<lookup, curDel, deletes, notes, high, normal>> ]_vars

\* The decision under a key the classifier invented was applied, flagged as
\* spam, and a later decision of the same map led to a delete.
C15_Witness ==
    /\ ppc = "delete"
    /\ classification # None
    /\ "x" \in DOMAIN Unwrap(classification)
    /\ Unwrap(classification)["x"]
    /\ "x" \notin DOMAIN pending

\* ------------------------------------------------------------------ C16
\* C16: while a guard that acquire returned is held in a process, a second
\* acquire on the same data directory in that same process never returns a
\* guard.
C16_NoSecondGuardInProcess ==
    \A c \in Callers, d \in Callers :
        (c # d /\ PidOf(c) = PidOf(d)) => ~(HoldsGuard(c) /\ HoldsGuard(d))

\* ------------------------------------------------------------------ C17
\* The step in which Drop of p's guard ends.
DropCompletes(p) == gpc[p] = "dropRemove" /\ gpc'[p] = "done"

\* Every other process has not started or has dropped its guard, one at
\* least has dropped it, and p is at the try_lock of its first attempt.
FirstAttemptAfterDrop(p) ==
    /\ gpc[p] = "lock"
    /\ gtries[p] = 0
    /\ \A q \in Procs \ {p} : gpc[q] \in {"absent", "done"}
    /\ \E q \in Procs \ {p} : gpc[q] = "done"

\* C17: dropping a guard unlocks the lock file and removes it from the data
\* directory, a file already gone being tolerated, so that the acquire of a
\* new process after it gets the lock on its first attempt, without waiting.
C17_DropFreesTheLock ==
    [][ \A p \in Procs :
          /\ DropCompletes(p) =>
                /\ path' = 0
                /\ \A i \in 1..Len(files') : files'[i].lock # Some(p)
          /\ (FirstAttemptAfterDrop(p) /\ gpc'[p] \notin {"lock", "failed"}) =>
                gpc'[p] = "truncate" ]_vars

C17_Witness ==
    \E p \in Procs, q \in Procs :
        /\ gpc[q] = "done"
        /\ HoldsGuard(p)
        /\ gtries[p] = 0
        /\ path = 2
        /\ gfd[p] = 2

\* ------------------------------------------------------------------ C19
\* The step in which the open or the try_lock_exclusive of p's acquire ends
\* with an I/O error other than WouldBlock: it neither yields a file nor a
\* lock nor leads to handle_existing_instance.
OpenOrLockFails(p) ==
    \/ gpc[p] = "open" /\ gpc'[p] \notin {"open", "lock", "dead"}
    \/ gpc[p] = "lock" /\ gpc'[p] \notin {"lock", "truncate", "hRead", "dead"}

\* C19: an I/O error other than WouldBlock raised while opening or locking
\* the lock file makes acquire return the error at once: no retry, no other
\* process terminated, the lock file neither deleted nor changed.
C19_IoErrorReturnsAtOnce ==
    [][ \A p \in Procs :
          OpenOrLockFails(p) =>
              /\ gpc'[p] = "failed"
              /\ \A q \in Callers \ {p} : gpc'[q] = gpc[q]
              /\ UNCHANGED <<path, files, gtries, gtodo, gtarget>> ]_vars

C19_Witness ==
    \E p \in Procs, q \in Procs :
        /\ gpc[p] = "failed"
        /\ files = <<>>
        /\ gpc[q] = "open"

\* ------------------------------------------------------------------ C18
\* p's call of acquire is running.
Acquiring(p) ==
    gpc[p] \in {"start", "scan", "tpCheck", "tpTerm", "tpKill", "open", "lock",
                "truncate", "write", "hRead", "hStale", "hRemove", "elapsed"}

\* The call of acquire in p has returned, or p was killed in it.
AcquireReturned(p) == gpc[p] \in {"held", "failed", "dead"}

\* The step in which p's acquire leaves its check of the elapsed time.
ElapsedChecked(p) == gpc[p] = "elapsed" /\ gpc'[p] \notin {"elapsed", "dead"}

\* The steps left in one pass of acquire's loop (lines 47-84), counted from
\* the statement p is at.
StepsLeftInPass(p) ==
    CASE gpc[p] = "open" -> 9
      [] gpc[p] = "lock" -> 8
      [] gpc[p] \in {"truncate", "hRead"} -> 7
      [] gpc[p] \in {"write", "tpCheck"} -> 6
      [] gpc[p] = "tpTerm" -> 5
      [] gpc[p] = "tpKill" -> 4
      [] gpc[p] = "hStale" -> 3
      [] gpc[p] = "hRemove" -> 2
      [] gpc[p] = "elapsed" -> 1
      [] OTHER -> 0

\* The steps left in the startup scan (lines 217-233): four for each process
\* of the snapshot still to be looked at, less those taken for the current one.
StepsLeftInScan(p) ==
    4 * Cardinality(gtodo[p]) +
    (CASE gpc[p] = "tpCheck" -> 3
       [] gpc[p] = "tpTerm" -> 2
       [] gpc[p] = "tpKill" -> 1
       [] OTHER -> 0)

\* A bound on the steps p's acquire has left: the passes the wait ceiling
\* still allows, ten steps each, after what is left of the scan.
StepsLeft(p) ==
    IF ~Acquiring(p) THEN 0
    ELSE IF gpc[p] = "start" THEN 10 * MaxAttempts + 4 * NProcs + 11
    ELSE IF gpc[p] = "scan" \/ (gret[p] = "scan" /\ gpc[p] \in {"tpCheck", "tpTerm", "tpKill"})
    THEN 10 * MaxAttempts + 10 + StepsLeftInScan(p)
    ELSE 10 * (MaxAttempts - 1 - gtries[p]) + StepsLeftInPass(p)

\* C18: acquire always terminates: a running acquire can always take its
\* next step, every step brings it nearer to its return, each sleep and
\* retry is counted, and once the wait ceiling is passed it returns a fatal
\* error; it never retries for ever.
C18_AcquireTerminates ==
    /\ [](\A p \in Procs : Acquiring(p) => (ENABLED AcquireStep(p) /\ StepsLeft(p) > 0))
    /\ [](\A p \in Procs : gtries[p] < MaxAttempts)
    /\ [][ \A p \in Procs :
              /\ (Acquiring(p) /\ gpc'[p] # gpc[p]) => StepsLeft(p)' < StepsLeft(p)
              /\ ElapsedChecked(p) =>
                    /\ gtries[p] + 1 >= MaxAttempts => gpc'[p] = "failed"
                    /\ gpc'[p] # "failed" =>
                          (gpc'[p] = "open" /\ gtries'[p] = gtries[p] + 1) ]_vars

C18_Witness ==
    \E p \in Procs, q \in Procs :
        /\ gpc[p] = "failed"
        /\ gtries[p] = MaxAttempts - 1
        /\ HoldsGuard(q)

\* Under a fair scheduler every acquire that was called returns.
AcquireEventuallyReturns ==
    \A p \in Procs : (gpc[p] = "start") ~> AcquireReturned(p)

\* ------------------------------------------------------------------ C20
\* Shutdown was triggered, by a signal or by run itself.
ShutdownTriggered == trigCalls > 0 \/ sdValue

\* run is waiting for a subsystem and the grace period is over.
GraceOver == apc \in WaitPositions /\ waited = ShutdownTimeout

C21_LockBeforeSubsystems ==
    SubsystemsStarted # {} => HoldsGuard(1)

\* ------------------------------------------------------------------ C22
\* A step that is a call of Shutdown::trigger.
TriggerStep == trigCalls' = trigCalls + 1

\* What listener l can observe of the coordinator: whether it lives, what
\* is_triggered returns, where its notified() is, and whether a pending
\* notified() is due to return.
ListenerView(l) ==
    <<lst[l], IsTriggered(l), lpc[l], lpc[l] = "waiting" /\ sdVersion # lseen[l]>>

\* The state of the coordinator and of every listener, as the API shows it.
ShutdownView == <<sdValue, sdRx, [l \in Listeners |-> ListenerView(l)]>>

\* C22: trigger is idempotent: a call that stores sets the flag, a call that
\* finds the flag set or no receiver to store for changes nothing, so two or
\* more calls leave the coordinator and every listener as one call does.
C22_TriggerIdempotent ==
    [][ TriggerStep =>
          /\ SendStores(sdRx) => sdValue'
          /\ (sdValue \/ ~SendStores(sdRx)) => ShutdownView' = ShutdownView ]_vars

C22_Witness ==
    /\ trigCalls = 2
    /\ sdValue
    /\ sdVersion = 2
    /\ \E l \in Listeners : lst[l] = "live" /\ lpc[l] = "returned"

\* ------------------------------------------------------------------ C23
\* The snapshot call returns in this step.
SnapshotReturns == snapPc = "lockedHigh" /\ snapPc' = "idle"

\* C23: snapshot returns the current length of the high lane and of the
\* normal lane and leaves both lanes unchanged: h and n after h pushes to
\* high and n to normal since the last drain, zero and zero after a drain.
C23_SnapshotCountsAndKeeps ==
    [][ SnapshotReturns =>
          /\ snapshot' = Some([high_priority |-> Len(high), normal_priority |-> Len(normal)])
          /\ snapshot' = Some([high_priority |-> Len(hiPushed), normal_priority |-> Len(noPushed)])
          /\ UNCHANGED <<high, normal>> ]_vars

C23_Witness ==
    /\ snapshot = Some([high_priority |-> 0, normal_priority |-> 0])
    /\ drains >= 1
    /\ Len(drainedAll) = 3
    /\ high = <<>> /\ normal = <<>>
    /\ snapPc = "idle"

\* ------------------------------------------------------------------ C24
\* The report r has taken `now` and has not left the critical section.
Pending(r) == wpc[r] \in {"enter", "locked"}

\* The restarts decided so far: invoked, or decided by a report in flight.
Trips == restarts + Cardinality({r \in Reporters : wDecision[r] # None})

\* C24: with several reports in flight at once, at most one is in the
\* critical section and only that one changes the watchdog state; each
\* report counted in the window adds exactly one to the count the previous
\* critical section left; and with no restart before (no cooldown), the
\* reports of one window decide a restart exactly when the count reaches the
\* threshold, so threshold-many concurrent reports decide exactly one.
C24_CountAndDecideAtomic ==
    /\ [](\A r \in Reporters : (wdLock = Some(r)) <=> (wpc[r] = "locked"))
    /\ [](wdLast = None => (wdCount < threshold /\ Trips = 0))
    /\ [][ /\ (wdLock # None /\ <<wdFirst, wdCount, wdLast>>' # <<wdFirst, wdCount, wdLast>>)
               => Decides(Unwrap(wdLock))
           /\ \A r \in Reporters :
                (Decides(r) /\ (wdFirst = None \/ InRun(r))) =>
                   /\ wDecision'[r] = None => wdCount' = wdCount + 1
                   /\ wDecision'[r] # None => wDecision'[r] = Some(wdCount + 1)
                   /\ wdLast = None =>
                        /\ (wDecision'[r] # None) <=> (wdCount + 1 = threshold)
                        /\ Trips' = (IF wdCount + 1 = threshold THEN 1 ELSE 0) ]_vars

\* Threshold-many reports overlap: one arrived first and is still in flight,
\* now in the critical section as the last of the threshold, the others
\* arrived later and were counted meanwhile.
C24_Witness ==
    /\ threshold = NReporters
    /\ wdLast = None
    /\ wdFirst # None
    /\ wdCount = threshold - 1
    /\ \E r \in Reporters :
         /\ wpc[r] = "locked"
         /\ wNow[r] < Unwrap(wdFirst)
         /\ InRun(r)

\* ------------------------------------------------------------------ C25
\* What the claim calls the watchdog state, and what a restart leaves behind.
WatchdogState == <<wdFirst, wdCount, wdLast>>
RestartTrace == <<restarts, lastAt, notices, wDecision>>

\* C25: a listener error that is not a network failure is only logged: from
\* its arrival to the return of process_error its report changes neither the
\* first-failure timestamp, the count nor the last-restart timestamp, takes
\* no lock, decides no restart and invokes no callback.
C25_OtherErrorsLeaveWatchdogAlone ==
    [][ \A r \in Reporters :
          /\ (\E error \in RequestErrors \ {"Network"} : ProcessError(r, error)) =>
                /\ wpc'[r] = "log"
                /\ UNCHANGED <<WatchdogState, RestartTrace, wdLock>>
          /\ (wpc[r] = "log" /\ wpc'[r] # "log") =>
                /\ wpc'[r] = "idle"
                /\ UNCHANGED <<WatchdogState, RestartTrace, wdLock>> ]_vars

\* An error that is no network failure is being logged while the count of an
\* earlier network failure stands.
C25_Witness ==
    /\ wdCount = 1
    /\ wdFirst # None
    /\ restarts = 0
    /\ \E r \in Reporters : wpc[r] = "log"

\* ------------------------------------------------------------------ C26
\* The report r is sending the admin notification or running the callback.
InNotification(r) == wpc[r] \in {"notify", "callback"}

\* C26: a report that sends the admin notification or runs the restart
\* callback does not hold the state lock; nobody holds it on that report's
\* behalf, so a report waiting at the lock can take it and be counted while
\* the notification is pending.
C26_LockNotHeldAcrossNotification ==
    \A r \in Reporters :
        InNotification(r) =>
            /\ wdLock # Some(r)
            /\ \A q \in Reporters \ {r} :
                 /\ wpc[q] = "enter" =>
                      \/ ENABLED LockState(q)
                      \/ \E o \in Reporters \ {r, q} : wpc[o] = "locked"
                 /\ wpc[q] = "locked" => ENABLED CountAndDecide(q)

\* A notification is pending and another report has been counted since the
\* trip reset the count.
C26_Witness ==
    /\ threshold = MaxThreshold
    /\ wdCount = 1
    /\ wdFirst # None
    /\ wdLock = None
    /\ \E r \in Reporters : wpc[r] = "notify" /\ wDecision[r] = Some(threshold)

\* ------------------------------------------------------------------ C27
\* C27: once the classifier has returned its decisions, a shutdown triggered
\* before apply_classification is through does not cut it short: when it
\* returns, a delete was attempted for every flagged Job of the batch.
C27_ApplyNotPreemptedByShutdown ==
    (Applied /\ IsTriggered(ProcListener)) =>
        \A j \in Range(batchJobs) : Flagged(j) => DeletesOf(j) >= 1

\* ------------------------------------------------------------------ C28
\* A bound on the steps the processor has left before its task ends, once
\* shutdown is triggered, counted from the statement it is at.
ExitDistance ==
    CASE ppc = "stopped" -> 0
      [] ppc = "exiting" -> 1
      [] ppc = "top" -> 2
      [] ppc \in {"sleep", "returnedOk", "returnedErr"} -> 3
      [] ppc = "job" -> 4
      [] ppc \in {"url", "fetch"} -> 5 + Len(urlsLeft)
      [] ppc = "apply" -> 4 + 3 * Cardinality(DOMAIN pending)
      [] ppc = "notify" -> 5 + 3 * Cardinality(DOMAIN pending)
      [] ppc = "delete" -> 6 + 3 * Cardinality(DOMAIN pending)
      [] ppc = "classify" -> 5 + 3 * Cardinality(DecisionKeys)
      [] ppc = "drain" ->
           5 + (CASE drainPc = "lockedHigh" -> 2
                  [] drainPc = "lockedBoth" -> 1
                  [] OTHER -> 0)

\* The processor, or a call it awaits, moves in this step.
ProcMoves == <<ppc, drainPc, urlsLeft, pending>>' # <<ppc, drainPc, urlsLeft, pending>>

ProcessorEventuallyExits == (trigCalls > 0) ~> (ppc = "stopped")

\* ------------------------------------------------------------------ C29
\* Depth of open round brackets after the first i characters of url, a
\* closing bracket closing the nearest open one.
RECURSIVE OpenDepth(_, _)
OpenDepth(url, i) ==
    IF i = 0 THEN 0
    ELSE IF url[i] = "(" THEN OpenDepth(url, i - 1) + 1
    ELSE IF url[i] = ")" /\ OpenDepth(url, i - 1) > 0 THEN OpenDepth(url, i - 1) - 1
    ELSE OpenDepth(url, i - 1)

\* The URL ends in a closing bracket with no matching opener inside the URL,
\* or in sentence punctuation.
EndsInUnmatchedCloser(url) ==
    url # <<>> /\ url[Len(url)] = ")" /\ OpenDepth(url, Len(url) - 1) = 0
EndsInPunctuation(url) ==
    url # <<>> /\ url[Len(url)] \in {",", ".", "!", "?", ";"}

\* The URL the claim describes: those trailing characters removed.
RECURSIVE Stripped(_)
Stripped(url) ==
    IF EndsInUnmatchedCloser(url) \/ EndsInPunctuation(url)
    THEN Stripped(SubSeq(url, 1, Len(url) - 1))
    ELSE url

\* C29: extract_urls returns, for the first `limit` http(s) URLs of the text,
\* each URL with its trailing closing brackets that have no matching opener
\* inside the URL, and its trailing sentence punctuation, removed.
C29_ExtractUrlsStripsTrailing ==
    urls # None =>
        LET found == FindIter(utext, 1) IN
        /\ Len(Unwrap(urls)) <= ulimit
        /\ Unwrap(urls) = Take([i \in 1..Len(found) |-> Stripped(found[i])], ulimit)

\* ------------------------------------------------------------------ C30
\* The lane an item was pushed to, and where the drains returned it: its
\* place in the concatenation of all drain results, 0 while it is queued.
LaneOf(item) == IF item \in hiEver THEN "high" ELSE "normal"
PlaceOf(s, item) ==
    IF item \in Range(s) THEN CHOOSE i \in 1..Len(s) : s[i] = item ELSE 0

\* C30: of two items one producer pushed to the same lane one after the
\* other, the earlier is drained first (by an earlier drain, or by the same
\* drain at an earlier place) and, while both are queued, stands before the
\* later in the lane; and in every drain result the high-lane items come
\* before the normal-lane items.
C30_FifoPerLaneAcrossDrains ==
    /\ \A p \in Producers : \A i \in 1..sent[p] : \A j \in (i + 1)..sent[p] :
         LET a == <<p, i>>
             b == <<p, j>>
             lane == IF LaneOf(a) = "high" THEN high ELSE normal
         IN  LaneOf(a) = LaneOf(b) =>
               /\ PlaceOf(drainedAll, b) # 0 =>
                    /\ PlaceOf(drainedAll, a) # 0
                    /\ PlaceOf(drainedAll, a) < PlaceOf(drainedAll, b)
               /\ PlaceOf(lane, b) # 0 =>
                    \/ PlaceOf(drainedAll, a) # 0
                    \/ (PlaceOf(lane, a) # 0 /\ PlaceOf(lane, a) < PlaceOf(lane, b))
    /\ \A x \in 1..Len(drained) : \A y \in (x + 1)..Len(drained) :
         ~(LaneOf(drained[x]) = "normal" /\ LaneOf(drained[y]) = "high")

\* Producer 1 pushed both its items to the normal lane, a drain between the
\* two; producer 2 pushed to the high lane in time for the second drain, which
\* returned its item before producer 1's second.
C30_Witness ==
    /\ drainPc = "idle"
    /\ drains = 2
    /\ drainedAll = <<<<1, 1>>, <<2, 1>>, <<1, 2>>>>
    /\ hiEver = {<<2, 1>>}
    /\ drained = <<<<2, 1>>, <<1, 2>>>>

\* ------------------------------------------------------------------ C31
\* The step in which p's handle_existing_instance calls fs::remove_file.
RemovesLockFile(p) == gpc[p] = "hRemove" /\ gpc'[p] = "elapsed"

\* The file the lock path names is flock'ed by a call of a live process.
HeldByLiveProcess ==
    /\ path # 0
    /\ \E c \in Callers : files[path].lock = Some(c) /\ IsProcessAlive(PidOf(c))

\* C31: a competing acquirer never deletes the lock file of a live process
\* that holds the OS lock on it, the window between the holder's
\* try_lock_exclusive and the end of its write_lock_info included.
C31_NeverRemovesHeldLockFile ==
    [][ \A p \in Callers : RemovesLockFile(p) => ~HeldByLiveProcess ]_vars

\* ------------------------------------------------------------------ C32
\* The prompt was built and is with the classifier: every Job of the batch
\* has its entry in it (lines 129-130).
PromptSent == ppc = "classify"

\* The decision a classifier files under Job j's message-id string reaches
\* Job j: the lookup holds j itself under that key.
Addressable(j) == Key(j) \in DOMAIN lookup /\ lookup[Key(j)] = j

\* C32: every Job whose entry is in the classifier prompt is addressable by
\* the decision map, so a spam=true under its message-id string deletes that
\* Job's own chat id and message id, whatever the batch holds, two Jobs of
\* different chats with one message id included.
C32_PromptJobsStayAddressable ==
    /\ PromptSent => \A j \in Range(batchJobs) : Addressable(j)
    /\ (ppc = "apply" /\ curDel = None /\ deletes = <<>>) =>
          \A j \in Range(batchJobs) :
              (Key(j) \in DOMAIN pending /\ pending[Key(j)]) => Addressable(j)

\* ------------------------------------------------------------------ C33
\* The delete calls of the whole run for Job j.
DeletesEver(j) == delEver[j.chat, j.mid]

\* C33: over the whole run at most one delete call is issued per pushed Job,
\* and none for a Job that was not pushed: no Job is drained twice, a batch
\* holds each of its Jobs once, and a Job whose decision is being applied has
\* left the batch lookup.
C33_AtMostOneDeletePerJob ==
    /\ \A j \in Jobs : DeletesEver(j) <= (IF j \in submitted THEN 1 ELSE 0)
    /\ NoDup(drainedAll \o high \o normal)
    /\ NoDup(batchJobs)
    /\ curDel # None => \A k \in DOMAIN lookup : lookup[k] # Unwrap(curDel)

\* Two Jobs were drained in two batches and a delete was called for each.
C33_Witness ==
    /\ drains = 2
    /\ Len(drainedAll) = 2
    /\ Len(batchJobs) = 1
    /\ \A j \in submitted : DeletesEver(j) = 1
    /\ Cardinality(submitted) = 2

\* ------------------------------------------------------------------ C34
\* The calls between the notification and the restart callback.
AtCallback == {r \in Reporters : wpc[r] = "callback"}

\* r's call decides a restart in this step.
Trip(r) == wDecision[r] = None /\ wDecision'[r] # None

\* C34: on a watchdog trip the state is reset under the lock (count 0,
\* first-failure cleared, last-restart set to now); then the admin
\* notification is attempted; then the restart callback is invoked, whether
\* or not the notification succeeded.
C34_TripResetsNotifiesRestarts ==
    /\ [](notices = restarts + Cardinality(AtCallback))
    /\ [](\A r \in Reporters :
            /\ wpc[r] = "notify" => \A sent_ok \in BOOLEAN : ENABLED NotifyAdmin(r, sent_ok)
            /\ wpc[r] = "callback" => ENABLED InvokeRestart(r))
    /\ [][ /\ \A r \in Reporters :
                /\ Trip(r) =>
                      /\ wdLock = Some(r)
                      /\ wdLock' = None
                      /\ <<wdFirst, wdCount, wdLast>>' = <<None, 0, Some(wNow[r])>>
                      /\ wpc'[r] = "notify"
                      /\ UNCHANGED <<notices, restarts>>
                /\ (wpc[r] = "notify" /\ wpc'[r] # "notify") =>
                      /\ wpc'[r] = "callback"
                      /\ notices' = notices + 1
                      /\ UNCHANGED <<restarts, wDecision>>
                /\ (wpc[r] = "callback" /\ wpc'[r] # "callback") =>
                      /\ restarts' = restarts + 1
                      /\ UNCHANGED notices
           /\ notices' # notices => \E r \in Reporters : wpc[r] = "notify" /\ wpc'[r] # "notify"
           /\ restarts' # restarts => \E r \in AtCallback : wpc'[r] # "callback" ]_vars

\* A call that tripped the watchdog has made its notification attempt and is
\* about to invoke the callback, while another call has counted a new failure
\* after the reset.
C34_Witness ==
    \E r \in AtCallback :
        /\ wDecision[r] # None
        /\ notices = restarts + 1
        /\ wdLast = Some(wNow[r])
        /\ wdCount = 1
        /\ wdFirst # None

\* ------------------------------------------------------------------ C35
\* r's call leaves the critical section, its failure brings the count to the
\* threshold and a restart was triggered within the cooldown before it.
Suppressed(r) == Decides(r) /\ RunLength(r) >= threshold /\ ~Cooled(r)

\* C35: a trip suppressed by the cooldown changes nothing but the count and
\* the window the call had already updated: count and first-failure are not
\* reset, last-restart and the restart record are unchanged; so the count
\* stays at or above the threshold until a failure arrives after the window
\* expired or a restart is triggered.
C35_SuppressedTripKeepsCount ==
    /\ [](wdCount >= threshold => (wdLast # None /\ wdFirst # None))
    /\ [][ /\ \A r \in Reporters : Suppressed(r) =>
                /\ wdCount' = RunLength(r)
                /\ wdCount' >= threshold
                /\ wdFirst' = (IF InRun(r) THEN wdFirst ELSE Some(wNow[r]))
                /\ wdLast' = wdLast
                /\ UNCHANGED <<restarts, lastAt, notices, wDecision>>
                /\ wpc'[r] = "idle"
           /\ (wdCount >= threshold /\ wdCount' < threshold) =>
                \E r \in Reporters : Decides(r) /\ (~InRun(r) \/ Trip(r)) ]_vars

\* The count stands at the threshold after a suppressed trip, the cooldown of
\* an earlier restart still running.
C35_Witness ==
    /\ threshold = NReporters
    /\ wdCount >= threshold
    /\ restarts = 1
    /\ wdLast # None
    /\ clock - Unwrap(wdLast) < RestartCooldown
    /\ AllIdle

\* ------------------------------------------------------------------ C36
\* Call c is in terminate_process, about to test or signal its target.
Terminating(c) == gpc[c] \in {"tpCheck", "tpTerm", "tpKill"}

\* C36: acquire never sends a termination signal to the calling process: the
\* scan leaves the current pid out, a lock file naming the current pid ends
\* the call with an error instead of a kill, and no call dies of a signal of
\* its own process.
C36_AcquireNeverSignalsItself ==
    /\ [](\A c \in Callers :
            /\ PidOf(c) \notin gtodo[c]
            /\ Terminating(c) => gtarget[c] # PidOf(c))
    /\ [][ \A c \in Callers :
            /\ (gpc'[c] = "dead" /\ gpc[c] # "dead") =>
                  \E d \in Callers :
                      /\ PidOf(d) # PidOf(c)
                      /\ gpc[d] \in {"tpTerm", "tpKill"}
                      /\ gpc'[d] # gpc[d]
                      /\ gtarget[d] = PidOf(c)
            /\ ( /\ gpc[c] = "hRead"
                 /\ gpc'[c] \notin {"hRead", "dead"}
                 /\ path # 0
                 /\ files[path].content = Some(PidOf(c)) ) =>
                    /\ gpc'[c] = "failed"
                    /\ UNCHANGED <<gtarget, gkilled>> ]_vars

\* The second acquire of process 1 found the lock file naming its own pid and
\* returned the error, process 1 alive with its guard, after a scan that had
\* another process to signal.
C36_Witness ==
    /\ ~skipGuard
    /\ gpc[0] = "failed"
    /\ gtries[0] = 0
    /\ gtarget[0] = 2
    /\ HoldsGuard(1)
    /\ path # 0
    /\ files[path].content = Some(1)

\* ------------------------------------------------------------------ C37
\* The dispatcher future has ended while run waits in its first select!.
ListenerEnded == apc = "select" /\ tg = "done"

\* C37: when the dispatcher future ends, with or without an error, before a
\* shutdown signal, run takes that branch and triggers shutdown itself: the
\* flag is stored, the processor task ends (or is aborted after the grace
\* period) and run returns.
C37_ListenerEndTriggersShutdown ==
    /\ [](apc = "trigger" => SendStores(sdRx))
    /\ []((telegramCompleted /\ apc # "trigger") => IsTriggered(ProcListener))
    /\ [](apc = "done" => ptask # "running")
    /\ [][ (ListenerEnded /\ apc' # apc /\ ~sdValue) =>
                (telegramCompleted' /\ apc' = "trigger") ]_vars
    /\ ListenerEnded ~> (apc = "done" /\ ptask # "running")

\* No signal ever came: the dispatcher ended, run triggered the shutdown, the
\* processor saw it and stopped, and run returned.
C37_Witness ==
    /\ apc = "done"
    /\ telegramCompleted
    /\ trigCalls = 0
    /\ sdValue
    /\ ptask = "finished"
    /\ warned = {}

\* ------------------------------------------------------------------ C38
\* Some listener in existence reads the shutdown as triggered.
SomeListenerTriggered == \E l \in Listeners : lst[l] = "live" /\ IsTriggered(l)

\* C38: the shutdown state is monotonic: once a listener has read
\* is_triggered as true, every listener reads true on every later call, and
\* no operation of Shutdown or ShutdownListener sets the value back to false.
C38_ShutdownMonotonic ==
    [][ /\ sdValue => sdValue'
        /\ SomeListenerTriggered =>
              \A l \in Listeners : lst'[l] = "live" => IsTriggered(l)' ]_vars

\* The flag is set, every trigger call the model explores was made, a
\* listener was dropped and another, subscribed after the trigger, reads true.
C38_Witness ==
    /\ sdValue
    /\ trigCalls = MaxTriggers
    /\ \E l \in Listeners : lst[l] = "dropped"
    /\ \E l \in Listeners :
          lst[l] = "live" /\ lseen[l] > 0 /\ lpc[l] = "idle" /\ IsTriggered(l)

\* ------------------------------------------------------------------ C39
\* A call of drain_ordered or snapshot is between two of its statements.
InDrain == drainPc # "idle"
InSnapshot == snapPc # "idle"

\* C39: the queue is deadlock-free: the lock of the normal lane is only ever
\* held by the holder of the high lane's lock, lane locks are held only inside
\* a drain_ordered or a snapshot, the call that holds a lock can always take
\* its next step, and with no lock held every push, drain_ordered and
\* snapshot can start.
C39_QueueDeadlockFree ==
    /\ noLock # None => hiLock = noLock
    /\ hiLock # None <=> (InDrain \/ InSnapshot)
    /\ ~(InDrain /\ InSnapshot)
    /\ drainPc = "lockedHigh" => ENABLED DrainLockNormal
    /\ drainPc = "lockedBoth" => ENABLED DrainTake
    /\ snapPc = "lockedHigh" => ENABLED SnapLockNormal
    /\ \A p \in Producers :
          CanPush(p) => /\ (hiLock = None <=> ENABLED PushHigh(p))
                        /\ (noLock = None <=> ENABLED PushNormal(p))
    /\ hiLock = None => (ENABLED DrainLockHigh /\ ENABLED SnapLockHigh)

\* A drain holds the high lane's lock and is about to take the other: a push
\* to the high lane and a snapshot have to wait, a push to the normal lane
\* does not; a snapshot and a drain were completed before.
C39_Witness ==
    /\ drainPc = "lockedHigh"
    /\ drains >= 1
    /\ snapshot # None
    /\ \E p \in Producers :
          CanPush(p) /\ ~ENABLED PushHigh(p) /\ ENABLED PushNormal(p)
    /\ ~ENABLED SnapLockHigh

\* Every drain_ordered and snapshot call that has started returns.
QueueCallsReturn ==
    /\ InDrain ~> ~InDrain
    /\ InSnapshot ~> ~InSnapshot

====
